---- MODULE Spec2Model ----
(***************************************************************************)
(* Dynamic form builder: the schema validator (utils/formValidator), the   *)
(* flat-file document store (utils/fileStore) and the form and submission  *)
(* request handlers that sit on top of them.                               *)
(*                                                                         *)
(* JavaScript values are tagged records.  Strings are sequences of         *)
(* one-character strings, so that length, trim and the regular             *)
(* expressions are computed rather than assumed.  Numbers are integers;    *)
(* numerals with a fraction or an exponent are outside the modelled        *)
(* character set.  Objects are functions from their own keys to values.    *)
(* A date is the number its digits spell, generateId() is a counter and    *)
(* new Date() reads a clock that counts.  The conditional fields of a      *)
(* field and the ip address and user agent of a request are left out: no   *)
(* handler branches on them.                                               *)
(*                                                                         *)
(* Spec is the system: the handlers as steps over the store.  SpecValidate *)
(* draws a stored form and an answers object and runs the validator on     *)
(* them, directly and through submitForm.  SpecReorder draws a stored      *)
(* field list and a fieldOrders map and sends the reorder request up to    *)
(* MaxReorders times.  SpecEdit is the form API over the file store with   *)
(* the field handlers and the reads, SpecVersion the same requests over    *)
(* the mongoose Form model and its FormVersion collection, SpecExport the  *)
(* submission API over a stored form of one to three labelled fields, and  *)
(* SpecStore the updates of forms and submissions with the clock moving.   *)
(* These four count their write requests in applied and stop at MaxEdits   *)
(* or MaxWrites of them.  SpecList runs the two list calls on a store of   *)
(* up to MaxListed documents.  SpecCreate creates forms and submissions    *)
(* with generateId() computed from the clock and the digits Math.random()  *)
(* draws.  SpecRace splits the updates and the submit at their awaits and  *)
(* interleaves up to MaxInflight of them, kept in inflight, with deletes   *)
(* and reads.  SpecUpload submits files under the names of fields and      *)
(* under a name that Object.prototype defines, and SpecStats submits,      *)
(* updates and deletes up to MaxListed submissions and reads their counts. *)
(***************************************************************************)
EXTENDS Integers, Sequences, FiniteSets, TLC

VARIABLES forms, subs, ids, resp, vanswers, vresult, vmap, applied, versions, clock, inflight

vars == <<forms, subs, ids, resp, vanswers, vresult, vmap, applied, versions, clock, inflight>>

-----------------------------------------------------------------------------
(* JavaScript values *)

Undef == [t |-> "undefined"]
Null == [t |-> "null"]
NaN == [t |-> "NaN"]
Str(s) == [t |-> "string", s |-> s]
Num(n) == [t |-> "number", n |-> n]
Bool(b) == [t |-> "boolean", b |-> b]
Arr(a) == [t |-> "array", a |-> a]
Obj(o) == [t |-> "object", o |-> o]

EmptyObj == [k \in {} |-> Undef]

\* obj[key]: a key the object does not own reads as undefined
Get(o, k) == IF k \in DOMAIN o THEN o[k] ELSE Undef

\* { ...a, ...b }
Spread(a, b) == [k \in (DOMAIN a) \cup (DOMAIN b) |-> IF k \in DOMAIN b THEN b[k] ELSE a[k]]

\* what the last request did: the handler, the status code of its reply,
\* whether FormValidator.validate ran, the paths it unlinked, the data returned
Response(op, code, validated, unlinked, data) ==
  [op |-> op, code |-> code, validated |-> validated, unlinked |-> unlinked, data |-> data]

NoResponse == Response("none", 0, FALSE, {}, Null)

IsWs(c) == c = " "

IsDigit(c) == c \in {"0", "1", "2", "3", "4", "5", "6", "7", "8", "9"}

DigitVal(c) ==
  CASE c = "0" -> 0 [] c = "1" -> 1 [] c = "2" -> 2 [] c = "3" -> 3 [] c = "4" -> 4
    [] c = "5" -> 5 [] c = "6" -> 6 [] c = "7" -> 7 [] c = "8" -> 8 [] c = "9" -> 9

DigitChar(d) == <<"0", "1", "2", "3", "4", "5", "6", "7", "8", "9">>[d + 1]

RECURSIVE TrimStart(_)
TrimStart(s) == IF s # <<>> /\ IsWs(Head(s)) THEN TrimStart(Tail(s)) ELSE s

RECURSIVE TrimEnd(_)
TrimEnd(s) == IF s # <<>> /\ IsWs(s[Len(s)]) THEN TrimEnd(SubSeq(s, 1, Len(s) - 1)) ELSE s

\* String.prototype.trim
Trim(s) == TrimEnd(TrimStart(s))

RECURSIVE DigitsValue(_)
DigitsValue(s) == IF s = <<>> THEN 0 ELSE 10 * DigitsValue(SubSeq(s, 1, Len(s) - 1)) + DigitVal(s[Len(s)])

AllDigits(s) == s # <<>> /\ \A i \in 1..Len(s) : IsDigit(s[i])

\* Number(<string>): blank is 0, a decimal integer numeral is its value, anything else NaN
NumeralValue(u) ==
  IF u = <<>> THEN Num(0)
  ELSE IF AllDigits(u) THEN Num(DigitsValue(u))
  ELSE IF Head(u) = "-" /\ AllDigits(Tail(u)) THEN Num(0 - DigitsValue(Tail(u)))
  ELSE NaN

StrToNumber(s) == NumeralValue(Trim(s))

RECURSIVE NatToStr(_)
NatToStr(n) == IF n < 10 THEN <<DigitChar(n)>> ELSE NatToStr(n \div 10) \o <<DigitChar(n % 10)>>

ObjectObjectStr == <<"[", "o", "b", "j", "e", "c", "t", " ", "O", "b", "j", "e", "c", "t", "]">>

\* String(value); inside Array.prototype.join null and undefined render as ""
RECURSIVE JsToString(_), joinComma(_)
JsToString(v) ==
  CASE v.t = "string" -> v.s
    [] v.t = "number" -> IF v.n < 0 THEN <<"-">> \o NatToStr(0 - v.n) ELSE NatToStr(v.n)
    [] v.t = "boolean" -> IF v.b THEN <<"t", "r", "u", "e">> ELSE <<"f", "a", "l", "s", "e">>
    [] v.t = "null" -> <<"n", "u", "l", "l">>
    [] v.t = "undefined" -> <<"u", "n", "d", "e", "f", "i", "n", "e", "d">>
    [] v.t = "NaN" -> <<"N", "a", "N">>
    [] v.t = "object" -> ObjectObjectStr
    [] v.t = "array" -> joinComma(v.a)

\* Array.prototype.join(",")
joinComma(a) ==
  IF a = <<>> THEN <<>>
  ELSE LET h == IF Head(a).t \in {"null", "undefined"} THEN <<>> ELSE JsToString(Head(a))
       IN IF Len(a) = 1 THEN h ELSE h \o <<",">> \o joinComma(Tail(a))

\* Number(value)
ToNumber(v) ==
  CASE v.t = "number" -> v
    [] v.t = "NaN" -> NaN
    [] v.t = "string" -> StrToNumber(v.s)
    [] v.t = "boolean" -> IF v.b THEN Num(1) ELSE Num(0)
    [] v.t = "null" -> Num(0)
    [] v.t = "undefined" -> NaN
    [] v.t = "object" -> NaN
    [] v.t = "array" -> StrToNumber(JsToString(v))

\* a value in a boolean position
Truthy(v) ==
  CASE v.t \in {"undefined", "null", "NaN"} -> FALSE
    [] v.t = "string" -> v.s # <<>>
    [] v.t = "number" -> v.n # 0
    [] v.t = "boolean" -> v.b
    [] OTHER -> TRUE

-----------------------------------------------------------------------------
(* FormValidator *)

\* the regular expressions used as validation.pattern; "(" does not compile
PatternCompiles(p) == p # "("

\* new RegExp(pattern).test(s) for the patterns above
PatternTest(p, s) ==
  CASE p = "^a+$" -> s # <<>> /\ \A i \in 1..Len(s) : s[i] = "a"
    [] p = "^[0-9]+$" -> AllDigits(s)
    [] OTHER -> FALSE

NotWsAt(c) == ~IsWs(c) /\ c # "@"

\* /^[^\s@]+@[^\s@]+\.[^\s@]+$/.test(s)
EmailRegexTest(s) ==
  \E i \in 2..Len(s) :
    /\ s[i] = "@"
    /\ \A k \in 1..(i - 1) : NotWsAt(s[k])
    /\ \A k \in (i + 1)..Len(s) : NotWsAt(s[k])
    /\ \E d \in (i + 2)..(Len(s) - 1) : s[d] = "."

\* new Date(value).getTime(): a number is its own time value, a string is
\* parsed (a decimal numeral stands for the instant of that number, any
\* other text of the modelled character set is an Invalid Date)
DateTime(v) ==
  CASE v.t = "number" -> v
    [] v.t = "boolean" -> ToNumber(v)
    [] v.t = "string" -> IF AllDigits(v.s) THEN Num(DigitsValue(v.s)) ELSE NaN
    [] v.t = "array" -> IF AllDigits(JsToString(v)) THEN Num(DigitsValue(JsToString(v))) ELSE NaN
    [] OTHER -> NaN

\* addError(field, message): one entry of this.errors
Err(field, text, arg) == [field |-> field.name, message |-> [label |-> field.label, text |-> text, arg |-> arg]]

CustomErr(field, message) == [field |-> field.name, message |-> [label |-> "", text |-> message, arg |-> Undef]]

\* what a validateXxx method leaves behind: the errors it pushed, or an exception
Pushed(errors) == [threw |-> FALSE, errors |-> errors]
Threw == [threw |-> TRUE, errors |-> <<>>]

Has(field, k) == k \in DOMAIN field.validation

\* a variant of isEmpty that does not trim: C3 tells it from isEmpty
isEmptyUntrimmed(value) ==
  \/ value.t \in {"null", "undefined"}
  \/ value.t = "string" /\ value.s = <<>>
  \/ value.t = "array" /\ value.a = <<>>

isEmpty(value) ==
  \/ value.t \in {"null", "undefined"}
  \/ value.t = "string" /\ Trim(value.s) = <<>>
  \/ value.t = "array" /\ value.a = <<>>

validateEmail(field, value) ==
  IF ~EmailRegexTest(JsToString(value))
  THEN Pushed(<<Err(field, " must be a valid email address", Undef)>>)
  ELSE Pushed(<<>>)

\* validateNumber once num = Number(value) is known
\* a variant of checkNumber whose bounds are exclusive: C5 tells it from checkNumber
checkNumberExclusive(field, num) ==
  IF num = NaN THEN Pushed(<<Err(field, " must be a valid number", Undef)>>)
  ELSE Pushed(
         (IF Has(field, "min") /\ num.n <= field.validation.min
          THEN <<Err(field, " must be at least ", Num(field.validation.min))>> ELSE <<>>)
         \o
         (IF Has(field, "max") /\ num.n >= field.validation.max
          THEN <<Err(field, " must be at most ", Num(field.validation.max))>> ELSE <<>>))

checkNumber(field, num) ==
  IF num = NaN THEN Pushed(<<Err(field, " must be a valid number", Undef)>>)
  ELSE Pushed(
         (IF Has(field, "min") /\ num.n < field.validation.min
          THEN <<Err(field, " must be at least ", Num(field.validation.min))>> ELSE <<>>)
         \o
         (IF Has(field, "max") /\ num.n > field.validation.max
          THEN <<Err(field, " must be at most ", Num(field.validation.max))>> ELSE <<>>))

validateNumber(field, value) == checkNumber(field, ToNumber(value))

\* a variant of checkLength that wants more than minLength characters: C6
\* tells it from checkLength
checkLengthExclusive(field, s) ==
  (IF Has(field, "minLength") /\ field.validation.minLength # 0
      /\ Len(s) <= field.validation.minLength
   THEN <<Err(field, " must be at least N characters", Num(field.validation.minLength))>> ELSE <<>>)
  \o
  (IF Has(field, "maxLength") /\ field.validation.maxLength # 0
      /\ Len(s) > field.validation.maxLength
   THEN <<Err(field, " must be at most N characters", Num(field.validation.maxLength))>> ELSE <<>>)

\* the minLength and maxLength checks of validateText
checkLength(field, s) ==
  (IF Has(field, "minLength") /\ field.validation.minLength # 0
      /\ Len(s) < field.validation.minLength
   THEN <<Err(field, " must be at least N characters", Num(field.validation.minLength))>> ELSE <<>>)
  \o
  (IF Has(field, "maxLength") /\ field.validation.maxLength # 0
      /\ Len(s) > field.validation.maxLength
   THEN <<Err(field, " must be at most N characters", Num(field.validation.maxLength))>> ELSE <<>>)

\* the pattern check of validateText, behind the length errors
checkPattern(field, s, lenErrs) ==
  IF Has(field, "pattern") /\ field.validation.pattern # ""
  THEN IF ~PatternCompiles(field.validation.pattern) THEN Threw
       ELSE IF ~PatternTest(field.validation.pattern, s)
       THEN Pushed(lenErrs \o
              <<IF Has(field, "customMessage") /\ field.validation.customMessage # ""
                THEN CustomErr(field, field.validation.customMessage)
                ELSE Err(field, " format is invalid", Undef)>>)
       ELSE Pushed(lenErrs)
  ELSE Pushed(lenErrs)

validateText(field, value) ==
  IF value.t # "string" THEN Pushed(<<Err(field, " must be text", Undef)>>)
  ELSE checkPattern(field, value.s, checkLength(field, value.s))

\* the minDate check of validateDate, min = new Date(validation.minDate)
checkMinDate(field, date, min) ==
  IF min # NaN /\ date.n < min.n
  THEN Pushed(<<Err(field, " must be on or after ", min)>>)
  ELSE Pushed(<<>>)

\* validateDate once date = new Date(value) is known
checkDate(field, date) ==
  IF date = NaN THEN Pushed(<<Err(field, " must be a valid date", Undef)>>)
  ELSE IF Has(field, "minDate") /\ Truthy(field.validation.minDate)
  THEN checkMinDate(field, date, DateTime(field.validation.minDate))
  ELSE Pushed(<<>>)

validateDate(field, value) == checkDate(field, DateTime(value))

includes(options, value) == \E i \in 1..Len(options) : options[i] = value

validateCheckbox(field, value) ==
  IF value.t # "array" THEN Pushed(<<Err(field, " must be an array of values", Undef)>>)
  ELSE IF Len(field.options) > 0 /\ \E i \in 1..Len(value.a) : ~includes(field.options, value.a[i])
  THEN Pushed(<<Err(field, " contains invalid options", Undef)>>)
  ELSE Pushed(<<>>)

validateOption(field, value) ==
  IF Len(field.options) > 0 /\ ~includes(field.options, value)
  THEN Pushed(<<Err(field, " must be one of the provided options", Undef)>>)
  ELSE Pushed(<<>>)

RECURSIVE validateFileErrors(_, _), validateFileEach(_, _)
validateFileErrors(field, value) ==
  IF value.t = "array"
  THEN (IF value.a = <<>> THEN <<Err(field, " must include at least one file", Undef)>> ELSE <<>>)
       \o validateFileEach(field, value.a)
  ELSE IF value.t # "object" THEN <<Err(field, " must be a file", Undef)>>
  ELSE IF ~Truthy(Get(value.o, "path")) \/ ~Truthy(Get(value.o, "originalName"))
  THEN <<Err(field, " file metadata is missing", Undef)>>
  ELSE <<>>

\* value.forEach((file) => this.validateFile(field, file))
validateFileEach(field, a) ==
  IF a = <<>> THEN <<>> ELSE validateFileErrors(field, Head(a)) \o validateFileEach(field, Tail(a))

validateFile(field, value) == Pushed(validateFileErrors(field, value))

\* the switch on field.type
validateType(field, value) ==
  CASE field.type = "email" -> validateEmail(field, value)
    [] field.type = "number" -> validateNumber(field, value)
    [] field.type \in {"text", "textarea"} -> validateText(field, value)
    [] field.type = "date" -> validateDate(field, value)
    [] field.type = "checkbox" -> validateCheckbox(field, value)
    [] field.type \in {"radio", "select"} -> validateOption(field, value)
    [] field.type = "file" -> validateFile(field, value)
    [] OTHER -> Pushed(<<>>)

\* validateField once value = this.answers[field.name] is read
validateValue(field, value) ==
  IF field.required /\ isEmpty(value) THEN Pushed(<<Err(field, " is required", Undef)>>)
  ELSE IF isEmpty(value) THEN Pushed(<<>>)
  ELSE validateType(field, value)

validateField(field, answers) == validateValue(field, Get(answers, field.name))

\* the for-of loop of validate(): fields i..n visited in array order, every
\* field's errors pushed onto the errors gathered so far
RECURSIVE validateFrom(_, _, _, _), validateNext(_, _, _, _, _)
validateFrom(fields, answers, i, errors) ==
  IF i > Len(fields) THEN Pushed(errors)
  ELSE validateNext(fields, answers, i, errors, validateField(fields[i], answers))

\* a variant of validateNext that stops at the first field with errors: C4
\* tells it from validateNext
validateNextFailFast(fields, answers, i, errors, r) ==
  IF r.threw THEN Threw
  ELSE IF r.errors # <<>> THEN Pushed(errors \o r.errors)
  ELSE validateFrom(fields, answers, i + 1, errors)

\* one turn of the loop: r is what validateField(fields[i]) left behind
validateNext(fields, answers, i, errors, r) ==
  IF r.threw THEN Threw
  ELSE validateFrom(fields, answers, i + 1, errors \o r.errors)

\* the object validate() returns
validationResult(r) == [threw |-> r.threw, isValid |-> ~r.threw /\ r.errors = <<>>, errors |-> r.errors]

\* new FormValidator(form, answers).validate(); answers is any non-null object
validate(form, answers) ==
  validationResult(validateFrom(form.fields, IF answers.t = "object" THEN answers.o ELSE EmptyObj, 1, <<>>))

-----------------------------------------------------------------------------
(* sanitize *)

\* sanitizeString: the modelled character set holds no markup, so what is
\* left of the replacements is the final trim()
sanitizeString(s) == Trim(s)

\* sanitizeObject: a string directly under an object key is sanitized, an
\* object or array under a key is walked, and an element of an array that is
\* not itself an object or array is returned as it is
RECURSIVE sanitizeObject(_)
sanitizeObject(v) ==
  CASE v.t = "array" -> Arr([i \in 1..Len(v.a) |-> sanitizeObject(v.a[i])])
    [] v.t = "object" ->
         Obj([k \in DOMAIN v.o |->
                IF v.o[k].t = "string" THEN Str(sanitizeString(v.o[k].s))
                ELSE sanitizeObject(v.o[k])])
    [] OTHER -> v

-----------------------------------------------------------------------------
(* fileStore *)

MaxForms == 1
MaxSubs == 1
MaxGenFields == 3

FormIds == 1..MaxForms
SubIds == 1..MaxSubs

\* the _id of the n-th field that generateId() names
GenFieldId(n) == <<"gen", n>>

\* the fields.map(...) of createForm and updateForm; gen is the number of
\* field ids generated before this call
RECURSIVE materializeFrom(_, _, _)
materializeFrom(fields, idx, gen) ==
  IF idx > Len(fields) THEN <<>>
  ELSE LET f == fields[idx]
           fresh == "_id" \notin DOMAIN f
       IN <<[_id |-> IF fresh THEN GenFieldId(gen + 1) ELSE f._id,
             label |-> f.label,
             type |-> f.type,
             name |-> f.name,
             required |-> IF "required" \in DOMAIN f THEN f.required ELSE FALSE,
             options |-> IF "options" \in DOMAIN f THEN f.options ELSE <<>>,
             validation |-> IF "validation" \in DOMAIN f THEN f.validation ELSE EmptyObj,
             order |-> IF "order" \in DOMAIN f THEN f.order ELSE idx - 1]>>
          \o materializeFrom(fields, idx + 1, IF fresh THEN gen + 1 ELSE gen)

\* how many field ids the fields.map(...) generates
RECURSIVE generatedIds(_)
generatedIds(fields) ==
  IF fields = <<>> THEN 0
  ELSE (IF "_id" \notin DOMAIN Head(fields) THEN 1 ELSE 0) + generatedIds(Tail(fields))

\* a variant of insertByOrder that puts an element before its equals, so that
\* ties are reversed: C10 tells it from insertByOrder
RECURSIVE insertByOrderUnstable(_, _)
insertByOrderUnstable(sorted, x) ==
  IF sorted = <<>> THEN <<x>>
  ELSE IF sorted[Len(sorted)].order < x.order THEN Append(sorted, x)
  ELSE Append(insertByOrderUnstable(SubSeq(sorted, 1, Len(sorted) - 1), x), sorted[Len(sorted)])

\* Array.prototype.sort((a, b) => a.order - b.order): a stable sort, an
\* element goes behind every element whose order is not greater than its own
RECURSIVE insertByOrder(_, _)
insertByOrder(sorted, x) ==
  IF sorted = <<>> THEN <<x>>
  ELSE IF sorted[Len(sorted)].order <= x.order THEN Append(sorted, x)
  ELSE Append(insertByOrder(SubSeq(sorted, 1, Len(sorted) - 1), x), sorted[Len(sorted)])

RECURSIVE sortByOrder(_)
sortByOrder(fields) ==
  IF fields = <<>> THEN <<>>
  ELSE insertByOrder(sortByOrder(SubSeq(fields, 1, Len(fields) - 1)), fields[Len(fields)])

\* payload.settings || { ... } of createForm
DefaultSettings ==
  [submitButtonText |-> "Submit", successMessage |-> "Thank you for your submission!",
   allowMultipleSubmissions |-> TRUE]

\* createForm(payload): the stored form.json; now is new Date()
createForm(payload, id, gen, now) ==
  [_id |-> id,
   title |-> payload.title,
   description |-> IF "description" \in DOMAIN payload THEN payload.description ELSE "",
   fields |-> materializeFrom(IF "fields" \in DOMAIN payload THEN payload.fields ELSE <<>>, 1, gen),
   status |-> IF "status" \in DOMAIN payload THEN payload.status ELSE "active",
   version |-> 1,
   settings |-> IF "settings" \in DOMAIN payload THEN payload.settings ELSE DefaultSettings,
   createdAt |-> now,
   updatedAt |-> now]

\* a variant of updateForm that stamps createdAt as well as updatedAt: C20
\* tells it from updateForm
updateFormRestamped(existing, updates, gen, now) ==
  LET merged == [Spread(existing, updates) EXCEPT !.updatedAt = now, !.createdAt = now] IN
  IF "fields" \in DOMAIN updates
  THEN [merged EXCEPT !.fields = materializeFrom(updates.fields, 1, gen)]
  ELSE merged

\* updateForm(id, updates) on an existing form: { ...existing, ...updates },
\* the fields of the update materialized
updateForm(existing, updates, gen, now) ==
  LET merged == [Spread(existing, updates) EXCEPT !.updatedAt = now] IN
  IF "fields" \in DOMAIN updates
  THEN [merged EXCEPT !.fields = materializeFrom(updates.fields, 1, gen)]
  ELSE merged

\* the forEach of reorderFields: a field whose entry of fieldOrders is truthy
\* takes that entry as its order
applyOrders(fields, fieldOrders) ==
  [i \in 1..Len(fields) |->
     IF fields[i]._id \in DOMAIN fieldOrders /\ fieldOrders[fields[i]._id] # 0
     THEN [fields[i] EXCEPT !.order = fieldOrders[fields[i]._id]]
     ELSE fields[i]]

\* reorderFields(id, fieldOrders) on an existing form
reorderFields(form, fieldOrders, now) ==
  [form EXCEPT !.fields = sortByOrder(applyOrders(form.fields, fieldOrders)), !.updatedAt = now]

\* the form.json files that listForms reads, directory by directory
RECURSIVE readForms(_, _)
readForms(store, id) ==
  IF id \notin DOMAIN store THEN <<>>
  ELSE (IF store[id] = Null THEN <<>> ELSE <<store[id]>>) \o readForms(store, id + 1)

\* filtered.sort((a, b) => b.createdAt - a.createdAt): newest first, stable
RECURSIVE insertByCreatedAt(_, _)
insertByCreatedAt(sorted, x) ==
  IF sorted = <<>> THEN <<x>>
  ELSE IF sorted[Len(sorted)].createdAt >= x.createdAt THEN Append(sorted, x)
  ELSE Append(insertByCreatedAt(SubSeq(sorted, 1, Len(sorted) - 1), x), sorted[Len(sorted)])

RECURSIVE sortByCreatedAt(_)
sortByCreatedAt(list) ==
  IF list = <<>> THEN <<>>
  ELSE insertByCreatedAt(sortByCreatedAt(SubSeq(list, 1, Len(list) - 1)), list[Len(list)])

\* a variant of slice that takes the element at end as well: C22 tells it
\* from slice
sliceThrough(list, start, end) ==
  SubSeq(list, start + 1, IF end + 1 < Len(list) THEN end + 1 ELSE Len(list))

\* Array.prototype.slice(start, end) with 0 <= start <= end
slice(list, start, end) ==
  SubSeq(list, start + 1, IF end < Len(list) THEN end ELSE Len(list))

\* status ? forms.filter(f => f.status === status) : forms; a query without a
\* status reads as the empty string
RECURSIVE filterByStatus(_, _)
filterByStatus(list, status) ==
  IF list = <<>> THEN <<>>
  ELSE (IF status = "" \/ Head(list).status = status THEN <<Head(list)>> ELSE <<>>)
         \o filterByStatus(Tail(list), status)

\* listForms({ status, page, limit }): the data of its result
listForms(store, status, page, limit) ==
  slice(sortByCreatedAt(filterByStatus(readForms(store, 1), status)),
        (page - 1) * limit, (page - 1) * limit + limit)

\* Math.ceil(total / limit) for a limit above zero
ceilDiv(total, limit) == IF total % limit = 0 THEN total \div limit ELSE total \div limit + 1

\* pagination: { total, page, pages: Math.ceil(total / limit) }
pagination(total, page, limit) == [total |-> total, page |-> page, pages |-> ceilDiv(total, limit)]

\* listForms({ status, page, limit }): its result
listFormsResult(store, status, page, limit) ==
  [data |-> listForms(store, status, page, limit),
   pagination |-> pagination(Len(filterByStatus(readForms(store, 1), status)), page, limit)]

\* createSubmission(formId, submission): the stored <id>.json
createSubmission(formId, submission, id, now) ==
  [_id |-> id,
   formId |-> formId,
   status |-> "pending",
   answers |-> submission.answers,
   metadata |-> IF "metadata" \in DOMAIN submission THEN submission.metadata ELSE [submittedAt |-> now],
   createdAt |-> now,
   updatedAt |-> now,
   formVersion |-> 1]

\* getSubmission(formId, submissionId): the file lies under the form's directory
getSubmission(store, formId, submissionId) ==
  IF submissionId \in DOMAIN store /\ store[submissionId] # Null /\ store[submissionId].formId = formId
  THEN store[submissionId] ELSE Null

\* the <id>.json files that listSubmissions reads from the form's directory
RECURSIVE readSubmissions(_, _, _)
readSubmissions(store, formId, id) ==
  IF id \notin DOMAIN store THEN <<>>
  ELSE (IF getSubmission(store, formId, id) = Null THEN <<>> ELSE <<store[id]>>)
         \o readSubmissions(store, formId, id + 1)

\* listSubmissions(formId, { status, page, limit }) with the sortBy and order
\* it defaults to, createdAt and desc: the data of its result
listSubmissions(store, formId, status, page, limit) ==
  slice(sortByCreatedAt(filterByStatus(readSubmissions(store, formId, 1), status)),
        (page - 1) * limit, (page - 1) * limit + limit)

\* listSubmissions(formId, { status, page, limit }): its result
listSubmissionsResult(store, formId, status, page, limit) ==
  [data |-> listSubmissions(store, formId, status, page, limit),
   pagination |-> pagination(Len(filterByStatus(readSubmissions(store, formId, 1), status)), page, limit)]

\* updateSubmission(formId, submissionId, updates) on an existing submission
updateSubmission(sub, updates, now) == [Spread(sub, updates) EXCEPT !.updatedAt = now]

\* Number.prototype.toString(16) of a natural number
HexDigits == <<"0", "1", "2", "3", "4", "5", "6", "7", "8", "9", "a", "b", "c", "d", "e", "f">>

RECURSIVE toHex(_)
toHex(n) == IF n < 16 THEN <<HexDigits[n + 1]>> ELSE toHex(n \div 16) \o <<HexDigits[(n % 16) + 1]>>

\* Math.random().toString(16): "0" for 0, else "0." and the digits of the fraction
randomString(fraction) == IF fraction = <<>> THEN <<"0">> ELSE <<"0", ".">> \o fraction

\* generateId(): `${Date.now().toString(16)}${Math.random().toString(16).slice(2, 10)}`,
\* with now what Date.now() returns and fraction the digits Math.random() draws
generateId(now, fraction) == toHex(now) \o slice(randomString(fraction), 2, 10)

\* the documents of the store: form.json of every form directory and the
\* <id>.json files under its submissions directory
Documents(formDocs, subDocs) == [forms |-> formDocs, subs |-> subDocs]

\* what a delete leaves: the documents, and whether fsp.rm threw
Removed(formDocs, subDocs, threw) == [forms |-> formDocs, subs |-> subDocs, threw |-> threw]

\* a variant of deleteForm that calls fsp.rm without force, which throws ENOENT
\* on a directory that is not there: C21 tells it from deleteForm
deleteFormStrict(store, id) ==
  Removed([store.forms EXCEPT ![id] = Null],
          [s \in DOMAIN store.subs |-> IF getSubmission(store.subs, id, s) = Null THEN store.subs[s] ELSE Null],
          store.forms[id] = Null)

\* deleteForm(id): fsp.rm(formsRoot/<id>, { recursive: true, force: true })
\* removes form.json and the submissions directory, and ignores a directory
\* that is not there
deleteForm(store, id) ==
  Removed([store.forms EXCEPT ![id] = Null],
          [s \in DOMAIN store.subs |-> IF getSubmission(store.subs, id, s) = Null THEN store.subs[s] ELSE Null],
          FALSE)

\* deleteSubmission(formId, submissionId): fsp.rm(<dir>/<submissionId>.json,
\* { force: true }) removes the file if it lies under the form's directory
deleteSubmission(store, formId, submissionId) ==
  Removed(store.forms,
          [s \in DOMAIN store.subs |->
             IF s = submissionId /\ getSubmission(store.subs, formId, s) # Null THEN Null ELSE store.subs[s]],
          FALSE)

-----------------------------------------------------------------------------
(* formController over the file store *)

\* a variant of sortFields that leaves the fields as they are stored: C11 tells
\* it from sortFields
sortFieldsSkipped(form) == form

\* form.fields.sort((a, b) => (a.order || 0) - (b.order || 0)) on the form a
\* read handler is about to return
sortFields(form) == [form EXCEPT !.fields = sortByOrder(form.fields)]

\* data.forEach(form => form.fields.sort(...)) of getAllForms
sortEach(list) == [i \in 1..Len(list) |-> sortFields(list[i])]

\* nextFields of addField: the fields and the new one behind them, its order
\* their count and its _id generated unless the request carries one
nextFields(fields, sanitizedField, gen) ==
  Append(fields,
         Spread(sanitizedField,
                [_id |-> IF "_id" \in DOMAIN sanitizedField THEN sanitizedField._id
                         ELSE GenFieldId(gen + 1),
                 order |-> Len(fields)]))

\* (form.fields || []).find(f => String(f._id) === String(fieldId))
hasField(fields, fieldId) == \E i \in 1..Len(fields) : fields[i]._id = fieldId

\* updatedFields of updateField: { ...f, ...sanitizedData } for the field named
updatedFields(fields, fieldId, sanitizedData) ==
  [i \in 1..Len(fields) |->
     IF fields[i]._id = fieldId THEN Spread(fields[i], sanitizedData) ELSE fields[i]]

\* updatedFields of deleteField: the fields but the one named
RECURSIVE filteredFields(_, _)
filteredFields(fields, fieldId) ==
  IF fields = <<>> THEN <<>>
  ELSE (IF Head(fields)._id = fieldId THEN <<>> ELSE <<Head(fields)>>)
         \o filteredFields(Tail(fields), fieldId)

-----------------------------------------------------------------------------
(* the Form model of mongoose and formController over it *)

\* String.prototype.toLowerCase on the field names of the requests, of which
\* "Email" alone has a capital
toLowerCase(name) == IF name = "Email" THEN "email" ELSE name

\* the cast of the fields by fieldSchema: the name lowercased, required false,
\* no options and order 0 unless given, an _id generated for a field without
RECURSIVE castFields(_, _, _)
castFields(fields, idx, gen) ==
  IF idx > Len(fields) THEN <<>>
  ELSE LET f == fields[idx]
           fresh == "_id" \notin DOMAIN f
       IN <<[_id |-> IF fresh THEN GenFieldId(gen + 1) ELSE f._id,
             label |-> f.label,
             type |-> f.type,
             name |-> toLowerCase(f.name),
             required |-> IF "required" \in DOMAIN f THEN f.required ELSE FALSE,
             options |-> IF "options" \in DOMAIN f THEN f.options ELSE <<>>,
             validation |-> IF "validation" \in DOMAIN f THEN f.validation ELSE EmptyObj,
             order |-> IF "order" \in DOMAIN f THEN f.order ELSE 0]>>
          \o castFields(fields, idx + 1, IF fresh THEN gen + 1 ELSE gen)

\* pre('save'): fieldNames.length === new Set(fieldNames).size
uniqueNames(form) ==
  Cardinality({form.fields[i].name : i \in 1..Len(form.fields)}) = Len(form.fields)

\* pre('save'): every select, radio and checkbox field has an option
optionsGiven(form) ==
  \A i \in 1..Len(form.fields) :
    form.fields[i].type \in {"select", "radio", "checkbox"} => Len(form.fields[i].options) > 0

\* whether document.save() gets past the two pre('save') hooks
saves(form) == uniqueNames(form) /\ optionsGiven(form)

\* new Form(sanitizedData): the document of Form.create, the defaults of
\* formSchema applied; a description not given reads as the empty string
newForm(payload, id, gen, now) ==
  [_id |-> id,
   title |-> payload.title,
   description |-> IF "description" \in DOMAIN payload THEN payload.description ELSE "",
   fields |-> castFields(IF "fields" \in DOMAIN payload THEN payload.fields ELSE <<>>, 1, gen),
   status |-> IF "status" \in DOMAIN payload THEN payload.status ELSE "active",
   version |-> IF "version" \in DOMAIN payload THEN payload.version ELSE 1,
   settings |-> IF "settings" \in DOMAIN payload THEN payload.settings ELSE DefaultSettings,
   createdAt |-> now,
   updatedAt |-> now]

\* FormVersion.create({ formId, version, title, description, fields, settings })
snapshot(form, now) ==
  [formId |-> form._id, version |-> form.version, title |-> form.title,
   description |-> form.description, fields |-> form.fields, settings |-> form.settings,
   archivedAt |-> now]

\* the unique index of FormVersion on (formId, version)
indexed(collection, formId, version) ==
  \E i \in 1..Len(collection) : collection[i].formId = formId /\ collection[i].version = version

\* form.createVersion(): the FormVersion collection and the stored form after
\* it.  written says whether the write of the snapshot gets through to the
\* database; the index rejects a second snapshot of a version.  Whether the
\* snapshot was written or not, the version goes up by one and the form is
\* saved, and a save that the hooks reject leaves the stored form as it was.
createVersion(form, collection, written, now) ==
  LET created == written /\ ~indexed(collection, form._id, form.version) IN
  [versions |-> IF created THEN Append(collection, snapshot(form, now)) ELSE collection,
   form |-> IF saves(form) THEN [form EXCEPT !.version = @ + 1, !.updatedAt = now] ELSE form]

\* Form.findByIdAndUpdate(id, sanitizedData, { new: true, runValidators: true }):
\* the keys of the update are set, the fields cast; no pre('save') hook runs
findByIdAndUpdate(form, update, gen, now) ==
  LET merged == [Spread(form, update) EXCEPT !.updatedAt = now] IN
  IF "fields" \in DOMAIN update
  THEN [merged EXCEPT !.fields = castFields(update.fields, 1, gen)]
  ELSE merged

\* Object.keys(req.body).length === 1 && req.body.status
isStatusOnlyUpdate(body) == DOMAIN body = {"status"} /\ body.status # ""

-----------------------------------------------------------------------------
(* submissionController *)

\* a variant of removeUploadedFiles that unlinks the first file only: C2 tells
\* it from removeUploadedFiles
removeFirstUploadedFile(files) == {files[i].path : i \in {j \in 1..Len(files) : j = 1 /\ files[j].path # ""}}

\* removeUploadedFiles(files): the paths handed to fs.unlink
removeUploadedFiles(files) == {files[i].path : i \in {j \in 1..Len(files) : files[j].path # ""}}

\* the metadata object built for one uploaded file
uploadPath(form, file) == <<"uploads/forms/">> \o NatToStr(form._id) \o <<"/", file.filename>>

fileInfoAt(file, rel) ==
  Obj([filename |-> Str(<<file.filename>>),
       originalName |-> Str(file.originalname),
       mimeType |-> Str(<<file.mimetype>>),
       size |-> Num(file.size),
       path |-> Str(rel),
       url |-> Str(<<"http://host/">> \o rel)])

fileInfo(form, file) == fileInfoAt(file, uploadPath(form, file))

\* the properties that acc, an object literal, inherits from Object.prototype
\* and that read as truthy functions; __proto__ is not among the field names
\* of the requests here
ObjectPrototypeKeys ==
  {"constructor", "toString", "valueOf", "hasOwnProperty", "isPrototypeOf",
   "propertyIsEnumerable", "toLocaleString"}

\* what acc[fieldName] reads for such a name before acc has it as its own
Inherited(name) == [t |-> "function", name |-> name]

\* req.files.reduce(...): one object for a field name seen once, an array in
\* upload order for a field name seen again
\* one turn of the reduce: acc[fieldName] after the file's metadata is added
addFile(acc, name, info) ==
  IF name \in DOMAIN acc
  THEN IF acc[name].t = "array" THEN Arr(Append(acc[name].a, info))
       ELSE Arr(<<acc[name], info>>)
  ELSE IF name \in ObjectPrototypeKeys THEN Arr(<<Inherited(name), info>>)
  ELSE info

RECURSIVE fileMapFrom(_, _, _, _)
fileMapFrom(form, files, i, acc) ==
  IF i > Len(files) THEN acc
  ELSE fileMapFrom(form, files, i + 1,
         Spread(acc, [k \in {files[i].fieldname} |-> addFile(acc, files[i].fieldname, fileInfo(form, files[i]))]))

fileMap(form, files) == fileMapFrom(form, files, 1, EmptyObj)

\* Object.assign(sanitizedAnswers, fileMap) as the validator reads it: the own
\* named properties of the answers
ownProperties(v) == IF v.t = "object" THEN v.o ELSE EmptyObj

mergedAnswers(form, sanitized, files) ==
  IF Len(files) > 0 THEN Obj(Spread(ownProperties(sanitized), fileMap(form, files)))
  ELSE Obj(ownProperties(sanitized))

\* JSON.stringify of a value that came as JSON but for the functions the file
\* map may hold: a function is null in an array and left out of an object
RECURSIVE stringify(_)
stringify(v) ==
  IF v.t = "array"
  THEN Arr([i \in DOMAIN v.a |-> IF v.a[i].t = "function" THEN Null ELSE stringify(v.a[i])])
  ELSE IF v.t = "object"
  THEN Obj([k \in {x \in DOMAIN v.o : v.o[x].t # "function"} |-> stringify(v.o[k])])
  ELSE v

\* the answers as JSON.stringify writes them: an array keeps its elements only
storedAnswers(form, sanitized, files) ==
  IF sanitized.t = "object" THEN stringify(mergedAnswers(form, sanitized, files)) ELSE sanitized

\* typeof v === 'object' for a truthy v
IsObjectLike(v) == v.t \in {"object", "array"}

Reply(code, validated, unlinked, errors, create) ==
  [code |-> code, validated |-> validated, unlinked |-> unlinked, errors |-> errors, create |-> create]

\* submitForm: form is what store.getForm returned; the reply carries the
\* status code, whether validate() ran, the unlink calls made and the
\* argument of store.createSubmission (Null when it is not called)
\* submitForm from the validation on: answers is sanitizedAnswers with the
\* file metadata assigned, validation what validator.validate() returned
submitValidated(files, answers, validation) ==
  IF validation.threw THEN Reply(500, TRUE, removeUploadedFiles(files), <<>>, Null)
  ELSE IF ~validation.isValid
  THEN Reply(400, TRUE, removeUploadedFiles(files), validation.errors, Null)
  ELSE Reply(201, TRUE, {}, <<>>, [answers |-> answers])

submitSanitized(form, files, sanitizedAnswers) ==
  submitValidated(files, storedAnswers(form, sanitizedAnswers, files),
                  validate(form, mergedAnswers(form, sanitizedAnswers, files)))

\* a variant of submitForm without the status check: C1 tells it from submitForm
submitFormAnyStatus(form, body, files) ==
  IF form = Null THEN Reply(404, FALSE, {}, <<>>, Null)
  ELSE IF ~IsObjectLike(Get(body, "answers"))
  THEN Reply(400, FALSE, removeUploadedFiles(files), <<>>, Null)
  ELSE submitSanitized(form, files, sanitizeObject(body.answers))

submitForm(form, body, files) ==
  IF form = Null THEN Reply(404, FALSE, {}, <<>>, Null)
  ELSE IF form.status # "active" THEN Reply(403, FALSE, {}, <<>>, Null)
  ELSE IF ~IsObjectLike(Get(body, "answers"))
  THEN Reply(400, FALSE, removeUploadedFiles(files), <<>>, Null)
  ELSE submitSanitized(form, files, sanitizeObject(body.answers))

SubmissionStatuses == {"pending", "reviewed", "archived"}

\* updateSubmissionStatus up to the call of store.updateSubmission: the reply
\* carries the update object in create (Null when the store is not called)
\* update.status, set when the body carries a status
statusUpdate(body) == IF "status" \in DOMAIN body THEN [k \in {"status"} |-> body.status] ELSE EmptyObj

\* a variant of patchValidated that still applies the status when the answers
\* fail validation: C8 tells it from patchValidated
patchValidatedStatusKept(body, sanitizedAnswers, validation) ==
  IF validation.threw THEN Reply(500, TRUE, {}, <<>>, Null)
  ELSE IF ~validation.isValid
  THEN Reply(400, TRUE, {}, validation.errors, IF DOMAIN statusUpdate(body) = {} THEN Null ELSE statusUpdate(body))
  ELSE Reply(200, TRUE, {}, <<>>, Spread(statusUpdate(body), [k \in {"answers"} |-> sanitizedAnswers]))

\* the answers branch from the validation on
patchValidated(body, sanitizedAnswers, validation) ==
  IF validation.threw THEN Reply(500, TRUE, {}, <<>>, Null)
  ELSE IF ~validation.isValid THEN Reply(400, TRUE, {}, validation.errors, Null)
  ELSE Reply(200, TRUE, {}, <<>>, Spread(statusUpdate(body), [k \in {"answers"} |-> sanitizedAnswers]))

patchSanitized(form, body, sanitizedAnswers) ==
  patchValidated(body, sanitizedAnswers, validate(form, sanitizedAnswers))

\* a variant of updateSubmissionStatus that takes any status of the body:
\* C30 tells it from updateSubmissionStatus
updateSubmissionStatusUnchecked(form, body) ==
  IF IsObjectLike(Get(body, "answers"))
  THEN IF form = Null THEN Reply(404, FALSE, {}, <<>>, Null)
       ELSE patchSanitized(form, body, sanitizeObject(body.answers))
  ELSE IF DOMAIN statusUpdate(body) = {} THEN Reply(400, FALSE, {}, <<>>, Null)
  ELSE Reply(200, FALSE, {}, <<>>, statusUpdate(body))

updateSubmissionStatus(form, body) ==
  IF "status" \in DOMAIN body /\ body.status \notin SubmissionStatuses
  THEN Reply(400, FALSE, {}, <<>>, Null)
  ELSE IF IsObjectLike(Get(body, "answers"))
  THEN IF form = Null THEN Reply(404, FALSE, {}, <<>>, Null)
       ELSE patchSanitized(form, body, sanitizeObject(body.answers))
  ELSE IF DOMAIN statusUpdate(body) = {} THEN Reply(400, FALSE, {}, <<>>, Null)
  ELSE Reply(200, FALSE, {}, <<>>, statusUpdate(body))

\* the limit that getSubmissionStats gives to store.listSubmissions
StatsLimit == 100000

\* getSubmissionStats: the counts over the data of listSubmissions(formId,
\* { page: 1, limit: 100000 })
getSubmissionStats(store, formId) ==
  [total |-> Len(listSubmissions(store, formId, "", 1, StatsLimit)),
   pending |-> Len(filterByStatus(listSubmissions(store, formId, "", 1, StatsLimit), "pending")),
   reviewed |-> Len(filterByStatus(listSubmissions(store, formId, "", 1, StatsLimit), "reviewed")),
   archived |-> Len(filterByStatus(listSubmissions(store, formId, "", 1, StatsLimit), "archived"))]

\* item.url || item.path || item.originalName || '[file]'
fileDisplay(v) ==
  IF Truthy(Get(ownProperties(v), "url")) THEN Get(ownProperties(v), "url")
  ELSE IF Truthy(Get(ownProperties(v), "path")) THEN Get(ownProperties(v), "path")
  ELSE IF Truthy(Get(ownProperties(v), "originalName")) THEN Get(ownProperties(v), "originalName")
  ELSE Str(<<"[file]">>)

\* value ?? ''
orEmpty(v) == IF v.t \in {"null", "undefined"} THEN Str(<<>>) ELSE v

\* the map of exportSubmissions over the items of an array answer
normalized(a) == [i \in 1..Len(a) |-> IF IsObjectLike(a[i]) THEN fileDisplay(a[i]) ELSE orEmpty(a[i])]

\* Array.prototype.join(', ')
RECURSIVE joinCommaSpace(_)
joinCommaSpace(a) ==
  IF a = <<>> THEN <<>>
  ELSE LET h == IF Head(a).t \in {"null", "undefined"} THEN <<>> ELSE JsToString(Head(a))
       IN IF Len(a) = 1 THEN h ELSE h \o <<",", " ">> \o joinCommaSpace(Tail(a))

\* the cell exportSubmissions writes for an answer
exportCell(value) ==
  IF value.t = "array" THEN Str(joinCommaSpace(normalized(value.a)))
  ELSE IF value.t = "object" THEN fileDisplay(value)
  ELSE orEmpty(value)

\* row[key] = value
Assign(row, key, value) == [k \in DOMAIN row \cup {key} |-> IF k = key THEN value ELSE row[k]]

\* form.fields.forEach(field => row[field.label] = ...) from the i-th field on
RECURSIVE exportFields(_, _, _, _)
exportFields(fields, answers, i, row) ==
  IF i > Len(fields) THEN row
  ELSE exportFields(fields, answers, i + 1,
                    Assign(row, fields[i].label, exportCell(Get(ownProperties(answers), fields[i].name))))

\* the row of one submission: the three leading columns, then the fields
exportRow(form, sub) ==
  exportFields(form.fields, sub.answers, 1,
               [k \in {"Submission ID", "Submitted At", "Status"} |->
                  CASE k = "Submission ID" -> Num(sub._id)
                    [] k = "Submitted At" -> Num(sub.metadata.submittedAt)
                    [] k = "Status" -> Str(<<sub.status>>)])

\* csvData of exportSubmissions
exportRows(form, submissions) == [i \in 1..Len(submissions) |-> exportRow(form, submissions[i])]

\* a variant of exportSubmissions without the test for an empty list, so that
\* the parser is handed no rows and the request fails: C18 tells it from
\* exportSubmissions
exportSubmissionsUnguarded(form, store) ==
  IF form = Null THEN [code |-> 404, data |-> [message |-> "Form not found"]]
  ELSE IF Len(listSubmissions(store, form._id, "", 1, 100000)) = 0
  THEN [code |-> 500, data |-> [message |-> "Server Error"]]
  ELSE [code |-> 200, data |-> exportRows(form, listSubmissions(store, form._id, "", 1, 100000))]

\* exportSubmissions: the status code and what is sent
exportSubmissions(form, store) ==
  IF form = Null THEN [code |-> 404, data |-> [message |-> "Form not found"]]
  ELSE IF Len(listSubmissions(store, form._id, "", 1, 100000)) = 0
  THEN [code |-> 404, data |-> [message |-> "No submissions found"]]
  ELSE [code |-> 200, data |-> exportRows(form, listSubmissions(store, form._id, "", 1, 100000))]

-----------------------------------------------------------------------------
(* the requests of the system specification *)

\* the form of the submission tests
ContactFields ==
  <<[label |-> "Full Name", type |-> "text", name |-> "full_name", required |-> TRUE, order |-> 0,
     validation |-> [minLength |-> 2, maxLength |-> 100]],
    [label |-> "Email", type |-> "email", name |-> "email", required |-> TRUE, order |-> 1],
    [label |-> "Age", type |-> "number", name |-> "age", required |-> FALSE, order |-> 2,
     validation |-> [min |-> 18, max |-> 100]]>>

\* a form with a required file field, its fields already carrying ids
UploadFields ==
  <<[_id |-> <<"fld", 1>>, label |-> "Document", type |-> "file", name |-> "doc", required |-> TRUE],
    [_id |-> <<"fld", 2>>, label |-> "Full Name", type |-> "text", name |-> "full_name",
     validation |-> [minLength |-> 2]]>>

CreatePayloads ==
  {[title |-> "Contact Form", status |-> "active", fields |-> ContactFields],
   [title |-> "Upload Form", fields |-> UploadFields],
   [title |-> "Upload Form", status |-> "draft", fields |-> UploadFields]}

UpdatePayloads ==
  {[k \in {"status"} |-> st] : st \in {"draft", "active", "archived"}}
    \cup {[k \in {"version"} |-> 2], [k \in {"fields"} |-> UploadFields]}

GoodEmail == Str(<<"a", "@", "b", ".", "c">>)

SubmitAnswers ==
  {Obj([full_name |-> Str(<<"J", "o", " ">>), email |-> GoodEmail, age |-> Num(25)]),
   Obj([age |-> Num(25)]),
   Obj([full_name |-> Str(<<" ", "J", " ">>), email |-> GoodEmail]),
   Obj([full_name |-> Str(<<"J", "o">>), email |-> GoodEmail, age |-> Num(150)])}

SubmitBodies == {[k \in {"answers"} |-> a] : a \in SubmitAnswers} \cup {EmptyObj}

UploadedFile(n, original) ==
  [fieldname |-> "doc", filename |-> "doc-" \o ToString(n), originalname |-> original,
   mimetype |-> "text/plain", size |-> n, path |-> "/uploads/forms/doc-" \o ToString(n)]

UploadSets == {<<>>, <<UploadedFile(1, <<"a">>)>>, <<UploadedFile(1, <<"a">>), UploadedFile(2, <<"b">>)>>}

PatchAnswers ==
  {Obj([full_name |-> Str(<<"J", "o", "e">>), email |-> GoodEmail]),
   Obj([full_name |-> Str(<<"J">>), email |-> GoodEmail])}

PatchBodies ==
  {EmptyObj, [k \in {"answers"} |-> Str(<<"x">>)]}
    \cup {[k \in {"status"} |-> st] : st \in {"reviewed", "bogus"}}
    \cup {[k \in {"answers"} |-> a] : a \in PatchAnswers}
    \cup {[status |-> st, answers |-> a] : st \in {"archived", "bogus"}, a \in PatchAnswers}

OrderMaps ==
  {[k \in {<<"fld", 1>>} |-> 5],
   [k \in {<<"fld", 1>>, <<"fld", 2>>} |-> IF k = <<"fld", 1>> THEN 1 ELSE 0]}

-----------------------------------------------------------------------------
(* the request handlers as steps *)

\* the variables a request to the file store leaves alone: those of the
\* validator and reorder specifications, the FormVersion collection and the clock
pureVars == <<vanswers, vresult, vmap, applied, versions, clock, inflight>>

\* POST /api/forms
Created(form, gens) ==
  /\ forms' = [forms EXCEPT ![form._id] = form]
  /\ ids' = [ids EXCEPT !.form = form._id, !.field = @ + gens]
  /\ resp' = Response("createForm", 201, FALSE, {}, form)
  /\ UNCHANGED subs

CreateForm(payload) ==
  /\ ids.form < MaxForms
  /\ ids.field + generatedIds(payload.fields) <= MaxGenFields
  /\ Created(createForm(payload, ids.form + 1, ids.field, clock), generatedIds(payload.fields))

\* PUT /api/forms/:id
Updated(id, form, gens) ==
  /\ ids.field + gens <= MaxGenFields
  /\ forms' = [forms EXCEPT ![id] = form]
  /\ resp' = Response("updateForm", 200, FALSE, {}, [form EXCEPT !.fields = sortByOrder(form.fields)])
  /\ ids' = [ids EXCEPT !.field = @ + gens]
  /\ UNCHANGED subs

UpdateForm(id, updates) ==
  IF forms[id] = Null
  THEN /\ resp' = Response("updateForm", 404, FALSE, {}, Null)
       /\ UNCHANGED <<forms, subs, ids>>
  ELSE Updated(id, updateForm(forms[id], updates, ids.field, clock),
               IF "fields" \in DOMAIN updates THEN generatedIds(updates.fields) ELSE 0)

\* DELETE /api/forms/:id: the form's directory goes, its submissions with it
DeleteForm(id) ==
  IF forms[id] = Null
  THEN /\ resp' = Response("deleteForm", 404, FALSE, {}, Null)
       /\ UNCHANGED <<forms, subs, ids>>
  ELSE IF deleteForm(Documents(forms, subs), id).threw
  THEN /\ resp' = Response("deleteForm", 500, FALSE, {}, Null)
       /\ UNCHANGED <<forms, subs, ids>>
  ELSE /\ forms' = deleteForm(Documents(forms, subs), id).forms
       /\ subs' = deleteForm(Documents(forms, subs), id).subs
       /\ resp' = Response("deleteForm", 200, FALSE, {}, Null)
       /\ UNCHANGED ids

Reordered(id, updated) ==
  /\ forms' = [forms EXCEPT ![id] = updated]
  /\ resp' = Response("reorderFields", 200, FALSE, {}, updated)
  /\ UNCHANGED <<subs, ids>>

\* PUT /api/forms/:id/reorder
ReorderFields(id, fieldOrders) ==
  IF forms[id] = Null
  THEN /\ resp' = Response("reorderFields", 404, FALSE, {}, Null)
       /\ UNCHANGED <<forms, subs, ids>>
  ELSE Reordered(id, reorderFields(forms[id], fieldOrders, clock))

\* the argument of store.createSubmission: the answers and the metadata of the
\* request, submittedAt: new Date()
submissionOf(create, now) == [answers |-> create.answers, metadata |-> [submittedAt |-> now]]

\* POST /api/submissions/:id/submit
Submitted(id, r) ==
  IF r.create = Null
  THEN /\ resp' = Response("submitForm", r.code, r.validated, r.unlinked, Null)
       /\ UNCHANGED <<forms, subs, ids>>
  ELSE /\ ids.sub < MaxSubs
       /\ subs' = [subs EXCEPT ![ids.sub + 1] = createSubmission(forms[id]._id, submissionOf(r.create, clock), ids.sub + 1, clock)]
       /\ ids' = [ids EXCEPT !.sub = @ + 1]
       /\ resp' = Response("submitForm", r.code, r.validated, r.unlinked, Num(ids.sub + 1))
       /\ UNCHANGED forms

SubmitForm(id, body, files) == Submitted(id, submitForm(forms[id], body, files))

\* PATCH /api/submissions/:formId/:submissionId
Patched(submissionId, r, existing) ==
  IF r.create = Null
  THEN /\ resp' = Response("updateSubmissionStatus", r.code, r.validated, {}, Null)
       /\ UNCHANGED <<forms, subs, ids>>
  ELSE IF existing = Null
  THEN /\ resp' = Response("updateSubmissionStatus", 404, r.validated, {}, Null)
       /\ UNCHANGED <<forms, subs, ids>>
  ELSE /\ subs' = [subs EXCEPT ![submissionId] = updateSubmission(existing, r.create, clock)]
       /\ resp' = Response("updateSubmissionStatus", 200, r.validated, {}, subs'[submissionId])
       /\ UNCHANGED <<forms, ids>>

UpdateSubmissionStatus(formId, submissionId, body) ==
  Patched(submissionId, updateSubmissionStatus(forms[formId], body), getSubmission(subs, formId, submissionId))

\* DELETE /api/submissions/:formId/:submissionId
DeleteSubmission(formId, submissionId) ==
  IF getSubmission(subs, formId, submissionId) = Null
  THEN /\ resp' = Response("deleteSubmission", 404, FALSE, {}, Null)
       /\ UNCHANGED <<forms, subs, ids>>
  ELSE /\ subs' = deleteSubmission(Documents(forms, subs), formId, submissionId).subs
       /\ resp' = Response("deleteSubmission", 200, FALSE, {}, Null)
       /\ UNCHANGED <<forms, ids>>

Init ==
  /\ forms = [id \in FormIds |-> Null]
  /\ subs = [s \in SubIds |-> Null]
  /\ ids = [form |-> 0, field |-> 0, sub |-> 0]
  /\ resp = NoResponse
  /\ vanswers = Undef
  /\ vresult = Null
  /\ vmap = EmptyObj
  /\ applied = 0
  /\ versions = <<>>
  /\ clock = 0
  /\ inflight = <<>>

Next ==
  \/ \E payload \in CreatePayloads : CreateForm(payload) /\ UNCHANGED pureVars
  \/ \E id \in FormIds, updates \in UpdatePayloads : UpdateForm(id, updates) /\ UNCHANGED pureVars
  \/ \E id \in FormIds : DeleteForm(id) /\ UNCHANGED pureVars
  \/ \E id \in FormIds, m \in OrderMaps : ReorderFields(id, m) /\ UNCHANGED pureVars
  \/ \E id \in FormIds, body \in SubmitBodies, files \in UploadSets :
       SubmitForm(id, body, files) /\ UNCHANGED pureVars
  \/ \E id \in FormIds, s \in SubIds, body \in PatchBodies :
       UpdateSubmissionStatus(id, s, body) /\ UNCHANGED pureVars
  \/ \E id \in FormIds, s \in SubIds : DeleteSubmission(id, s) /\ UNCHANGED pureVars

Spec == Init /\ [][Next]_vars

-----------------------------------------------------------------------------
(* the validator specification: one stored form, one set of answers, and the *)
(* validator run on them directly and through submitForm                     *)

MaxStrLen == 3
MaxFields == 3

Chars == {"a", " ", "1"}

StringsUpTo(n) == UNION {[1..k -> Chars] : k \in 0..n}

EmailStrings ==
  {<<"a", "@", "a", ".", "a">>, <<"a", "@", "a">>, <<"a", "@", ".", "a">>, <<"@", "a", ".", "a">>,
   <<"a", "@", "a", ".">>, <<"a", " ", "@", "a", ".", "a">>, <<"a", "@", "a", "@", "a", ".", "a">>}

NumberValues == {0 - 1, 0, 1, 2, 3, 17, 18, 19, 99, 100, 101, 150}

FileObject == Obj([path |-> Str(<<"p">>), originalName |-> Str(<<"a">>)])

OptionA == Str(<<"a">>)
OptionB == Str(<<"b">>)

AnswerValues ==
  {Null, Bool(TRUE), Obj(EmptyObj), FileObject, Obj([path |-> Str(<<"p">>)])}
    \cup {Str(s) : s \in StringsUpTo(MaxStrLen) \cup EmailStrings}
    \cup {Num(n) : n \in NumberValues}
    \cup {Arr(a) : a \in {<<>>, <<OptionA>>, <<OptionA, Str(<<"c">>)>>, <<Num(18)>>, <<FileObject>>,
                          <<Str(<<"a", "@", "a", ".", "a">>)>>}}

\* a validation bag: the keys of present that are switched on
Bag(present, on) == [k \in {x \in DOMAIN present : x \in on} |-> present[k]]

NumberValidations ==
  {Bag([min |-> lo, max |-> hi], on) :
     lo \in {1, 2, 18}, hi \in {1, 3, 100}, on \in SUBSET {"min", "max"}}

TextValidations ==
  {Bag([minLength |-> lo, maxLength |-> hi, pattern |-> p, customMessage |-> "custom"], on) :
     lo \in 0..MaxStrLen, hi \in {1, 2, 100}, p \in {"^a+$", "("},
     on \in {{}, {"minLength"}, {"maxLength"}, {"minLength", "maxLength"}, {"minLength", "pattern"},
             {"pattern", "customMessage"}, {"minLength", "maxLength", "pattern"}}}

FieldTypes == {"text", "textarea", "number", "email", "date", "checkbox", "radio", "select", "file"}

ValidationsOf(type) ==
  CASE type = "number" -> NumberValidations
    [] type \in {"text", "textarea"} -> TextValidations
    [] type = "date" -> {EmptyObj, [k \in {"minDate"} |-> Str(<<"1", "1">>)]}
    [] OTHER -> {EmptyObj}

OptionsOf(type) ==
  IF type \in {"checkbox", "radio", "select"} THEN {<<>>, <<OptionA, OptionB>>} ELSE {<<>>}

\* forms of one field named "f", of every type
SingleFieldForms ==
  {<<[label |-> "F", type |-> type, name |-> "f", required |-> req, validation |-> v, options |-> o]>> :
     <<type, req, v, o>> \in
       {t \in FieldTypes \X BOOLEAN \X (NumberValidations \cup TextValidations \cup ValidationsOf("date"))
               \X OptionsOf("radio") :
          t[3] \in ValidationsOf(t[1]) /\ t[4] \in OptionsOf(t[1])}}

\* the fields the longer forms are made of: the three of the tests and a
\* text field whose pattern does not compile
CatalogueFields ==
  <<ContactFields[1], ContactFields[2], ContactFields[3],
    [label |-> "Code", type |-> "text", name |-> "code", validation |-> [k \in {"pattern"} |-> "("]]>>

Injective(q) == \A i, j \in 1..Len(q) : i # j => q[i] # q[j]

MultiFieldForms ==
  {[i \in 1..n |-> CatalogueFields[q[i]]] :
     <<n, q>> \in {x \in (2..MaxFields) \X UNION {[1..k -> 1..Len(CatalogueFields)] : k \in 2..MaxFields} :
                     Len(x[2]) = x[1] /\ Injective(x[2])}}

ValidatorForms == SingleFieldForms \cup MultiFieldForms

\* the values tried under each field name of the longer forms
NamedValues(name) ==
  CASE name = "full_name" -> {Undef, Str(<<"J">>), Str(<<"J", "o">>)}
    [] name = "email" -> {Undef, Str(<<"a", "@", "b", ".", "c">>), Str(<<"a", "b">>)}
    [] name = "age" -> {Undef, Num(25), Num(150)}
    [] name = "code" -> {Undef, Str(<<"x">>)}
    [] OTHER -> AnswerValues \cup {Undef}

\* an object literal with one more key: a value left out adds no key
With(o, name, value) ==
  IF value = Undef THEN o ELSE [k \in DOMAIN o \cup {name} |-> IF k = name THEN value ELSE o[k]]

\* the answers objects tried on fields of the given names
RECURSIVE AnswersOver(_)
AnswersOver(names) ==
  IF names = {} THEN {EmptyObj}
  ELSE {With(o, CHOOSE n \in names : TRUE, v) :
          o \in AnswersOver(names \ {CHOOSE n \in names : TRUE}),
          v \in NamedValues(CHOOSE n \in names : TRUE)}

FieldNames(fields) == {fields[i].name : i \in 1..Len(fields)}

InitValidate ==
  /\ \E fields \in ValidatorForms :
       /\ forms = [id \in FormIds |->
                     IF id = 1 THEN createForm([title |-> "Form", fields |-> fields], 1, 0, 0) ELSE Null]
       /\ ids = [form |-> 1, field |-> generatedIds(fields), sub |-> 0]
       /\ \E o \in AnswersOver(FieldNames(fields)) : vanswers = Obj(o)
  /\ subs = [s \in SubIds |-> Null]
  /\ resp = NoResponse
  /\ vresult = Null
  /\ vmap = EmptyObj
  /\ applied = 0
  /\ versions = <<>>
  /\ clock = 0
  /\ inflight = <<>>

\* new FormValidator(form, answers).validate() on the stored form
Validate(id) ==
  /\ forms[id] # Null
  /\ vresult = Null
  /\ vresult' = validate(forms[id], vanswers)
  /\ UNCHANGED <<forms, subs, ids, resp, vanswers, vmap, applied, versions, clock, inflight>>

\* the same answers posted to the form
SubmitAnswer(id) ==
  /\ resp = NoResponse
  /\ SubmitForm(id, [k \in {"answers"} |-> vanswers], <<>>)
  /\ UNCHANGED pureVars

NextValidate ==
  \/ \E id \in FormIds : Validate(id)
  \/ \E id \in FormIds : SubmitAnswer(id)

SpecValidate == InitValidate /\ [][NextValidate]_vars

-----------------------------------------------------------------------------
(* the reorder specification: one stored form, one fieldOrders map, and the *)
(* same reorder request sent once and again                                 *)

MaxOrder == 2
MaxReorders == 2

ReorderFieldId(i) == <<"fld", i>>

\* field lists as createForm stores them: in payload order, each field with
\* the order its payload gave it
ReorderForms ==
  {[i \in 1..n |-> [_id |-> ReorderFieldId(i), label |-> "F", type |-> "text",
                    name |-> "f" \o ToString(i), order |-> o[i]]] :
     <<n, o>> \in {x \in (1..MaxFields) \X UNION {[1..k -> 0..MaxOrder] : k \in 1..MaxFields} :
                     Len(x[2]) = x[1]}}

\* fieldOrders: some of the field ids, each with an integer >= 0
FieldOrderMaps ==
  UNION {[keys -> 0..MaxOrder] : keys \in SUBSET {ReorderFieldId(i) : i \in 1..MaxFields}}

InitReorder ==
  /\ \E fields \in ReorderForms :
       /\ forms = [id \in FormIds |->
                     IF id = 1 THEN createForm([title |-> "Form", fields |-> fields], 1, 0, 0) ELSE Null]
       /\ ids = [form |-> 1, field |-> 0, sub |-> 0]
  /\ vmap \in FieldOrderMaps
  /\ subs = [s \in SubIds |-> Null]
  /\ resp = NoResponse
  /\ vanswers = Undef
  /\ vresult = Null
  /\ applied = 0
  /\ versions = <<>>
  /\ clock = 0
  /\ inflight = <<>>

\* PUT /api/forms/:id/reorder with the map drawn at the start
Reorder(id) ==
  /\ applied < MaxReorders
  /\ ReorderFields(id, vmap)
  /\ applied' = applied + 1
  /\ UNCHANGED <<vanswers, vresult, vmap, versions, clock, inflight>>

NextReorder == \E id \in FormIds : Reorder(id)

SpecReorder == InitReorder /\ [][NextReorder]_vars

-----------------------------------------------------------------------------
(* the form-editing specification: the form handlers over the file store,   *)
(* with requests that carry unsorted orders, names that differ in case only *)
(* and a select without options, while the clock moves; applied counts the  *)
(* requests that write, up to MaxEdits here and in the versioning           *)
(* specification, up to MaxWrites in the export and store specifications    *)

MaxFieldCount == 3
MaxClock == 2
MaxEdits == 2
MaxWrites == 3

NameField == [_id |-> <<"fld", 1>>, label |-> "Name", type |-> "text", name |-> "name", order |-> 2]
EmailField == [_id |-> <<"fld", 2>>, label |-> "Email", type |-> "email", name |-> "email", order |-> 0]
ColourField == [_id |-> <<"fld", 3>>, label |-> "Colour", type |-> "select", name |-> "colour"]
CapitalEmailField == [label |-> "E-mail", type |-> "text", name |-> "Email"]
SizeField == [label |-> "Size", type |-> "radio", name |-> "size", options |-> <<OptionA, OptionB>>]

EditCreatePayloads ==
  {[title |-> "Survey", description |-> "first", fields |-> <<NameField, EmailField>>],
   [title |-> "Survey", status |-> "draft", fields |-> <<EmailField, CapitalEmailField>>],
   [title |-> "Survey", fields |-> <<ColourField>>]}

EditUpdatePayloads ==
  {[k \in {"status"} |-> "archived"], [k \in {"title"} |-> "X"], [k \in {"version"} |-> 0],
   [k \in {"fields"} |-> <<EmailField, NameField>>]}

AddFieldPayloads == {CapitalEmailField, ColourField, SizeField}

UpdateFieldPayloads ==
  {[k \in {"name"} |-> "Email"], [k \in {"options"} |-> <<>>], [k \in {"label"} |-> "Status"]}

EditFieldIds == {<<"fld", i>> : i \in 1..3} \cup {GenFieldId(n) : n \in 1..MaxGenFields}

EditOrderMaps ==
  {[k \in {<<"fld", 1>>, <<"fld", 2>>} |-> IF k = <<"fld", 1>> THEN 1 ELSE 2]}

\* store.updateForm(id, { fields }) of the field handlers, which reply with the
\* form as it was read
FieldsUpdated(op, code, id, fields, gens) ==
  /\ ids.field + gens <= MaxGenFields
  /\ forms' = [forms EXCEPT ![id] = updateForm(forms[id], [k \in {"fields"} |-> fields], ids.field + gens, clock)]
  /\ ids' = [ids EXCEPT !.field = @ + gens]
  /\ resp' = Response(op, code, FALSE, {}, forms[id])
  /\ UNCHANGED subs

NotFound(op) ==
  /\ resp' = Response(op, 404, FALSE, {}, Null)
  /\ UNCHANGED <<forms, subs, ids>>

\* POST /api/forms/:id/fields
AddField(id, field) ==
  IF forms[id] = Null THEN NotFound("addField")
  ELSE /\ Len(forms[id].fields) < MaxFieldCount
       /\ FieldsUpdated("addField", 201, id, nextFields(forms[id].fields, field, ids.field),
                        IF "_id" \in DOMAIN field THEN 0 ELSE 1)

\* PUT /api/forms/:id/fields/:fieldId
UpdateField(id, fieldId, data) ==
  IF forms[id] = Null \/ ~hasField(forms[id].fields, fieldId) THEN NotFound("updateField")
  ELSE FieldsUpdated("updateField", 200, id, updatedFields(forms[id].fields, fieldId, data), 0)

\* DELETE /api/forms/:id/fields/:fieldId
DeleteField(id, fieldId) ==
  IF forms[id] = Null THEN NotFound("deleteField")
  ELSE FieldsUpdated("deleteField", 200, id, filteredFields(forms[id].fields, fieldId), 0)

\* GET /api/forms/:id
GetFormById(id) ==
  /\ resp' = IF forms[id] = Null THEN Response("getFormById", 404, FALSE, {}, Null)
             ELSE Response("getFormById", 200, FALSE, {}, sortFields(forms[id]))
  /\ UNCHANGED <<forms, subs, ids>>

\* GET /api/forms
GetAllForms(status, page, limit) ==
  /\ resp' = Response("getAllForms", 200, FALSE, {}, sortEach(listForms(forms, status, page, limit)))
  /\ UNCHANGED <<forms, subs, ids>>

\* time passes between two requests
Tick ==
  /\ clock < MaxClock
  /\ clock' = clock + 1
  /\ UNCHANGED <<forms, subs, ids, resp>>

\* a request that writes is counted
Counted(max) ==
  /\ applied < max
  /\ applied' = applied + 1
  /\ UNCHANGED <<vanswers, vresult, vmap, versions, clock, inflight>>

NextEdit ==
  \/ \E payload \in EditCreatePayloads : CreateForm(payload) /\ Counted(MaxEdits)
  \/ \E id \in FormIds, updates \in EditUpdatePayloads : UpdateForm(id, updates) /\ Counted(MaxEdits)
  \/ \E id \in FormIds, field \in AddFieldPayloads : AddField(id, field) /\ Counted(MaxEdits)
  \/ \E id \in FormIds, fieldId \in EditFieldIds, data \in UpdateFieldPayloads :
       UpdateField(id, fieldId, data) /\ Counted(MaxEdits)
  \/ \E id \in FormIds, fieldId \in EditFieldIds : DeleteField(id, fieldId) /\ Counted(MaxEdits)
  \/ \E id \in FormIds, m \in EditOrderMaps : ReorderFields(id, m) /\ Counted(MaxEdits)
  \/ \E id \in FormIds : DeleteForm(id) /\ Counted(MaxEdits)
  \/ \E id \in FormIds : GetFormById(id) /\ UNCHANGED pureVars
  \/ \E status \in {"", "active"}, page \in {1, 2}, limit \in {1, 10} :
       GetAllForms(status, page, limit) /\ UNCHANGED pureVars
  \/ Tick /\ UNCHANGED <<vanswers, vresult, vmap, applied, versions, inflight>>

SpecEdit == Init /\ [][NextEdit]_vars

-----------------------------------------------------------------------------
(* the versioning specification: the form handlers over the Form model of  *)
(* mongoose, where updateForm takes a snapshot before a structural update  *)

MongoCreatePayloads ==
  EditCreatePayloads \cup {[title |-> "Survey", version |-> 3, fields |-> <<EmailField>>]}

MongoUpdatePayloads ==
  EditUpdatePayloads
    \cup {[k \in {"fields"} |-> <<EmailField, CapitalEmailField>>],
          [status |-> "archived", title |-> "X"]}

\* next(error): the request fails and nothing is written
Failed(op) ==
  /\ resp' = Response(op, 500, FALSE, {}, Null)
  /\ UNCHANGED <<forms, subs, ids, versions>>

\* POST /api/forms
MongoCreateForm(payload) ==
  LET form == newForm(payload, ids.form + 1, ids.field, clock) IN
  /\ ids.form < MaxForms
  /\ ids.field + generatedIds(payload.fields) <= MaxGenFields
  /\ IF saves(form) THEN Created(form, generatedIds(payload.fields)) /\ UNCHANGED versions
     ELSE Failed("createForm")

\* the update of updateForm after createVersion, and the reply
MongoUpdated(id, v, body) ==
  /\ versions' = v.versions
  /\ Updated(id, findByIdAndUpdate(v.form, body, ids.field, clock),
             IF "fields" \in DOMAIN body THEN generatedIds(body.fields) ELSE 0)

\* PUT /api/forms/:id
MongoUpdateForm(id, body, written) ==
  IF forms[id] = Null THEN NotFound("updateForm") /\ UNCHANGED versions
  ELSE MongoUpdated(id,
                    IF isStatusOnlyUpdate(body) THEN [versions |-> versions, form |-> forms[id]]
                    ELSE createVersion(forms[id], versions, written, clock),
                    body)

\* form.fields.push(sanitizedField); form.save()
pushed(form, sanitizedField, gen, now) ==
  [form EXCEPT !.fields = @ \o castFields(<<sanitizedField>>, 1, gen), !.updatedAt = now]

\* POST /api/forms/:id/fields
MongoAddField(id, field) ==
  IF forms[id] = Null THEN NotFound("addField") /\ UNCHANGED versions
  ELSE IF ~saves(pushed(forms[id], field, ids.field, clock)) THEN Failed("addField")
  ELSE /\ Len(forms[id].fields) < MaxFieldCount
       /\ ids.field + generatedIds(<<field>>) <= MaxGenFields
       /\ forms' = [forms EXCEPT ![id] = pushed(forms[id], field, ids.field, clock)]
       /\ ids' = [ids EXCEPT !.field = @ + generatedIds(<<field>>)]
       /\ resp' = Response("addField", 201, FALSE, {}, forms'[id])
       /\ UNCHANGED <<subs, versions>>

\* a request that writes is counted
CountedWrite ==
  /\ applied < MaxEdits
  /\ applied' = applied + 1
  /\ UNCHANGED <<vanswers, vresult, vmap, clock, inflight>>

NextVersion ==
  \/ \E payload \in MongoCreatePayloads : MongoCreateForm(payload) /\ CountedWrite
  \/ \E id \in FormIds, body \in MongoUpdatePayloads, written \in BOOLEAN :
       MongoUpdateForm(id, body, written) /\ CountedWrite
  \/ \E id \in FormIds, field \in AddFieldPayloads : MongoAddField(id, field) /\ CountedWrite
  \/ \E id \in FormIds : GetFormById(id) /\ UNCHANGED pureVars
  \/ Tick /\ UNCHANGED <<vanswers, vresult, vmap, applied, versions, inflight>>

SpecVersion == Init /\ [][NextVersion]_vars

-----------------------------------------------------------------------------
(* the export specification: one stored form of one to three fields under  *)
(* every assignment of the labels, submissions to it, and the handlers     *)
(* that read them                                                          *)

ExportLabels == {"Name", "Tags", "Status"}

ExportFields(l1, l2, l3) ==
  <<[_id |-> <<"fld", 1>>, label |-> l1, type |-> "text", name |-> "full_name"],
    [_id |-> <<"fld", 2>>, label |-> l2, type |-> "file", name |-> "doc"],
    [_id |-> <<"fld", 3>>, label |-> l3, type |-> "checkbox", name |-> "tags",
     options |-> <<OptionA, OptionB>>]>>

ExportForms ==
  {[title |-> "Export Form", fields |-> SubSeq(ExportFields(l1, l2, l3), 1, n)] :
     l1 \in ExportLabels, l2 \in ExportLabels, l3 \in ExportLabels, n \in 1..3}

ExportBodies ==
  {[k \in {"answers"} |-> Obj([full_name |-> Str(<<"J", "o">>), tags |-> Arr(<<OptionA, OptionB>>)])],
   [k \in {"answers"} |-> Obj([full_name |-> Str(<<"J", "o">>)])]}

InitExport ==
  /\ \E payload \in ExportForms :
       forms = [id \in FormIds |-> IF id = 1 THEN createForm(payload, 1, 0, 0) ELSE Null]
  /\ subs = [s \in SubIds |-> Null]
  /\ ids = [form |-> 1, field |-> 0, sub |-> 0]
  /\ resp = NoResponse
  /\ vanswers = Undef
  /\ vresult = Null
  /\ vmap = EmptyObj
  /\ applied = 0
  /\ versions = <<>>
  /\ clock = 0
  /\ inflight = <<>>

\* GET /api/submissions/:formId/export
ExportSubmissions(formId) ==
  /\ resp' = Response("exportSubmissions", exportSubmissions(forms[formId], subs).code, FALSE, {},
                      exportSubmissions(forms[formId], subs).data)
  /\ UNCHANGED <<forms, subs, ids>>

\* submission.formId = { title: form.title, fields: form.fields } when the form is there
populated(sub, form) ==
  IF form = Null THEN sub ELSE [sub EXCEPT !.formId = [title |-> form.title, fields |-> form.fields]]

\* GET /api/submissions/:formId/:submissionId
GetSubmissionById(formId, submissionId) ==
  /\ resp' = IF getSubmission(subs, formId, submissionId) = Null
             THEN Response("getSubmissionById", 404, FALSE, {}, Null)
             ELSE Response("getSubmissionById", 200, FALSE, {},
                           populated(getSubmission(subs, formId, submissionId), forms[formId]))
  /\ UNCHANGED <<forms, subs, ids>>

\* GET /api/submissions/:formId
GetSubmissions(formId, status, page, limit) ==
  /\ resp' = Response("getSubmissions", 200, FALSE, {}, listSubmissions(subs, formId, status, page, limit))
  /\ UNCHANGED <<forms, subs, ids>>

NextExport ==
  \/ \E id \in FormIds, body \in ExportBodies, files \in UploadSets :
       SubmitForm(id, body, files) /\ Counted(MaxWrites)
  \/ \E id \in FormIds : ExportSubmissions(id) /\ UNCHANGED pureVars
  \/ \E id \in FormIds, s \in SubIds : GetSubmissionById(id, s) /\ UNCHANGED pureVars
  \/ \E id \in FormIds, status \in {"", "pending"}, page \in {1, 2}, limit \in {1, 20} :
       GetSubmissions(id, status, page, limit) /\ UNCHANGED pureVars
  \/ \E id \in FormIds, s \in SubIds : DeleteSubmission(id, s) /\ Counted(MaxWrites)
  \/ \E id \in FormIds : DeleteForm(id) /\ Counted(MaxWrites)

SpecExport == InitExport /\ [][NextExport]_vars

-----------------------------------------------------------------------------
(* the store specification: the updates of a form and of a submission, on  *)
(* documents that are stored and on ids that are not, while the clock moves *)

StoreCreatePayloads == {[title |-> "Contact Form", status |-> "active", fields |-> ContactFields]}

StoreUpdatePayloads ==
  {[k \in {"title"} |-> "X"], [status |-> "archived", createdAt |-> 9],
   [k \in {"fields"} |-> <<EmailField, NameField>>]}

StoreSubmitBodies ==
  {[k \in {"answers"} |-> Obj([full_name |-> Str(<<"J", "o">>), email |-> GoodEmail, age |-> Num(25)])]}

StorePatchBodies ==
  {[k \in {"status"} |-> "reviewed"],
   [k \in {"answers"} |-> Obj([full_name |-> Str(<<"J", "o", "e">>), email |-> GoodEmail])],
   [status |-> "archived", answers |-> Obj([full_name |-> Str(<<"J", "o", "e">>), email |-> GoodEmail])]}

NextStore ==
  \/ \E payload \in StoreCreatePayloads : CreateForm(payload) /\ Counted(MaxWrites)
  \/ \E id \in FormIds, updates \in StoreUpdatePayloads : UpdateForm(id, updates) /\ Counted(MaxWrites)
  \/ \E id \in FormIds, body \in StoreSubmitBodies : SubmitForm(id, body, <<>>) /\ Counted(MaxWrites)
  \/ \E id \in FormIds, s \in SubIds, body \in StorePatchBodies :
       UpdateSubmissionStatus(id, s, body) /\ Counted(MaxWrites)
  \/ Tick /\ UNCHANGED <<vanswers, vresult, vmap, applied, versions, inflight>>

SpecStore == Init /\ [][NextStore]_vars

-----------------------------------------------------------------------------
(* the list specification: a store of up to MaxListed forms, or of one form *)
(* and up to MaxListed submissions to it, some of them updated or deleted   *)
(* since, and the two list calls of the store on it                         *)

MaxListed == 3

ListedKinds == {"created", "updated", "gone"}

\* the times of creation of n documents: all in one tick, or one a tick
\* until the clock stops
CreationTimes(n) ==
  {[i \in 1..n |-> 0], [i \in 1..n |-> IF i - 1 < MaxClock THEN i - 1 ELSE MaxClock]}

ListedForm(id, kind, now) ==
  IF kind = "gone" THEN Null
  ELSE IF kind = "updated"
  THEN updateForm(createForm([title |-> "Survey", fields |-> <<>>], id, 0, now),
                  [k \in {"status"} |-> "draft"], 0, MaxClock)
  ELSE createForm([title |-> "Survey", fields |-> <<>>], id, 0, now)

ListedSubmission(id, kind, now) ==
  IF kind = "gone" THEN Null
  ELSE IF kind = "updated"
  THEN updateSubmission(createSubmission(1, submissionOf([answers |-> Obj(EmptyObj)], now), id, now),
                        [k \in {"status"} |-> "reviewed"], MaxClock)
  ELSE createSubmission(1, submissionOf([answers |-> Obj(EmptyObj)], now), id, now)

InitList ==
  /\ \E n \in 0..MaxListed : \E kind \in [1..n -> ListedKinds], t \in CreationTimes(n) :
       \/ /\ forms = [id \in 1..n |-> ListedForm(id, kind[id], t[id])]
          /\ subs = [s \in SubIds |-> Null]
          /\ ids = [form |-> n, field |-> 0, sub |-> 0]
       \/ /\ forms = [id \in FormIds |-> createForm([title |-> "Survey", fields |-> <<>>], id, 0, 0)]
          /\ subs = [s \in 1..n |-> ListedSubmission(s, kind[s], t[s])]
          /\ ids = [form |-> MaxForms, field |-> 0, sub |-> n]
  /\ resp = NoResponse
  /\ vanswers = Undef
  /\ vresult = Null
  /\ vmap = EmptyObj
  /\ applied = 0
  /\ versions = <<>>
  /\ clock = MaxClock
  /\ inflight = <<>>

\* store.listForms({ status, page, limit })
ListForms(status, page, limit) ==
  /\ resp' = Response("listForms", 200, FALSE, {}, listFormsResult(forms, status, page, limit))
  /\ UNCHANGED <<forms, subs, ids>>

\* store.listSubmissions(formId, { status, page, limit })
ListSubmissions(formId, status, page, limit) ==
  /\ resp' = Response("listSubmissions", 200, FALSE, {}, listSubmissionsResult(subs, formId, status, page, limit))
  /\ UNCHANGED <<forms, subs, ids>>

ListPages == 1..(MaxListed + 1)
ListLimits == 1..MaxListed

\* one list call on the store as drawn: a list call writes nothing, so a
\* second call would start from the same store
NextList ==
  \/ \E status \in {"", "active"}, page \in ListPages, limit \in ListLimits :
       resp = NoResponse /\ ListForms(status, page, limit) /\ UNCHANGED pureVars
  \/ \E id \in FormIds, status \in {"", "pending"}, page \in ListPages, limit \in ListLimits :
       resp = NoResponse /\ ListSubmissions(id, status, page, limit) /\ UNCHANGED pureVars

SpecList == InitList /\ [][NextList]_vars

-----------------------------------------------------------------------------
(* the create specification: forms and submissions created under the ids   *)
(* that generateId() makes of the clock and of the draw of Math.random(),   *)
(* in the same tick and in later ones                                       *)

\* the fractions Math.random() may draw: 0, 0.5 and 0.25 in hexadecimal
Fractions == {<<>>, <<"8">>, <<"4">>}

GeneratedIds == {generateId(now, fraction) : now \in 0..MaxClock, fraction \in Fractions}

GeneratedPayloads == {[title |-> "Survey", fields |-> <<>>], [title |-> "Poll", fields |-> <<>>]}

GeneratedBodies == {[k \in {"answers"} |-> Obj(EmptyObj)], [k \in {"answers"} |-> Obj([note |-> Str(<<"a">>)])]}

InitCreate ==
  /\ forms = [id \in GeneratedIds |-> Null]
  /\ subs = [id \in GeneratedIds |-> Null]
  /\ ids = [form |-> 0, field |-> 0, sub |-> 0]
  /\ resp = NoResponse
  /\ vanswers = Undef
  /\ vresult = Null
  /\ vmap = EmptyObj
  /\ applied = 0
  /\ versions = <<>>
  /\ clock = 0
  /\ inflight = <<>>

\* POST /api/forms, the id drawn by generateId(); ids counts the creates
CreateFormAs(payload, fraction) ==
  /\ forms' = [forms EXCEPT ![generateId(clock, fraction)] =
                 createForm(payload, generateId(clock, fraction), ids.field, clock)]
  /\ ids' = [ids EXCEPT !.form = @ + 1]
  /\ resp' = Response("createForm", 201, FALSE, {}, forms'[generateId(clock, fraction)])
  /\ UNCHANGED subs

\* POST /api/submissions/:id/submit, the id of the submission drawn by generateId()
SubmittedAs(id, r, fraction) ==
  IF r.create = Null
  THEN /\ resp' = Response("submitForm", r.code, r.validated, r.unlinked, Null)
       /\ UNCHANGED <<forms, subs, ids>>
  ELSE /\ subs' = [subs EXCEPT ![generateId(clock, fraction)] =
                      createSubmission(forms[id]._id, submissionOf(r.create, clock),
                                       generateId(clock, fraction), clock)]
       /\ ids' = [ids EXCEPT !.sub = @ + 1]
       /\ resp' = Response("submitForm", r.code, r.validated, r.unlinked, generateId(clock, fraction))
       /\ UNCHANGED forms

SubmitFormAs(id, body, fraction) == SubmittedAs(id, submitForm(forms[id], body, <<>>), fraction)

NextCreate ==
  \/ \E payload \in GeneratedPayloads, fraction \in Fractions :
       CreateFormAs(payload, fraction) /\ Counted(MaxWrites)
  \/ \E id \in GeneratedIds, body \in GeneratedBodies, fraction \in Fractions :
       SubmitFormAs(id, body, fraction) /\ Counted(MaxWrites)
  \/ Tick /\ UNCHANGED <<vanswers, vresult, vmap, applied, versions, inflight>>

SpecCreate == InitCreate /\ [][NextCreate]_vars

-----------------------------------------------------------------------------
(* the interleaving specification: requests on one stored form and its      *)
(* submission that yield at their awaits, so that a request reads, another  *)
(* request reads, writes or deletes, and then the first one writes.  A      *)
(* request is a record in inflight from its first await on: checked when    *)
(* the handler has read the form, read when the store has read the document *)
(* and made the one to write, written or failed when it has replied.  The   *)
(* mkdir and the writeFile of writeJson are one step, and so are the read   *)
(* and the rm of a delete handler.                                          *)

MaxInflight == 2

RaceSubIds == 1..(MaxSubs + 1)

RaceUpdatePayloads == {[k \in {"title"} |-> "X"], [k \in {"status"} |-> "archived"]}

RaceOrderMaps == {[k \in {GenFieldId(1)} |-> 5]}

RaceAnswers == Obj([full_name |-> Str(<<"J", "o", "e">>), email |-> GoodEmail])

RaceFirstAnswers == Obj([full_name |-> Str(<<"J", "o">>), email |-> GoodEmail])

RacePatchBodies == {[k \in {"status"} |-> "reviewed"], [k \in {"answers"} |-> RaceAnswers]}

RaceSubmitBodies == {[k \in {"answers"} |-> RaceAnswers]}

InitRace ==
  /\ forms = [id \in FormIds |->
               IF id = 1 THEN createForm([title |-> "Contact Form", fields |-> ContactFields], 1, 0, 0)
               ELSE Null]
  /\ subs = [s \in RaceSubIds |->
              IF s = 1 THEN createSubmission(1, submissionOf([answers |-> RaceFirstAnswers], 0), 1, 0)
              ELSE Null]
  /\ ids = [form |-> 1, field |-> Len(ContactFields), sub |-> 1]
  /\ resp = NoResponse
  /\ vanswers = Undef
  /\ vresult = Null
  /\ vmap = EmptyObj
  /\ applied = 0
  /\ versions = <<>>
  /\ clock = 1
  /\ inflight = <<>>

\* a request in flight: the handler, where it is, the form and the submission
\* it names, the update it carries, the document the store read for it, the
\* document the store made of that to write, and its turn among the writes
Request(op, phase, formId, submissionId, update, read, merged) ==
  [op |-> op, phase |-> phase, form |-> formId, sub |-> submissionId, update |-> update,
   read |-> read, merged |-> merged, turn |-> 0]

\* a variant of writeJson that writes the changed keys over the document as it
\* is stored at the time: C24 tells it from writeJson
storedOverWritten(stored, request) ==
  IF stored = Null THEN request.merged
  ELSE [k \in DOMAIN request.merged |->
          IF k \in DOMAIN stored /\ k \in DOMAIN request.read /\ request.merged[k] = request.read[k]
          THEN stored[k] ELSE request.merged[k]]

\* writeJson(path, merged): the file holds the document the request made of
\* what it read, whatever is stored under the path by now, the directory made
\* anew if it is gone
writeJson(stored, request) == request.merged

Began(request) ==
  /\ Len(inflight) < MaxInflight
  /\ inflight' = Append(inflight, request)

Moved(i, phase, read, merged) ==
  inflight' = [inflight EXCEPT ![i] = [@ EXCEPT !.phase = phase, !.read = read, !.merged = merged]]

Replied(i, phase) ==
  inflight' = [inflight EXCEPT ![i] = [@ EXCEPT !.phase = phase, !.turn = applied + 1]]

raceRest == <<vanswers, vresult, vmap, versions, clock>>

\* PUT /api/forms/:id and PUT /api/forms/:id/reorder up to the handler's
\* store.getForm
CheckForm(op, id, update) ==
  IF forms[id] = Null
  THEN /\ resp' = Response(op, 404, FALSE, {}, Null)
       /\ UNCHANGED <<forms, subs, ids, applied, inflight>>
  ELSE /\ Began(Request(op, "checked", id, 0, update, Null, Null))
       /\ UNCHANGED <<forms, subs, ids, resp, applied>>

\* store.updateForm up to its getForm and the merge; on null the handler
\* reads form.fields of null and fails
ReadUpdateForm(i) ==
  /\ inflight[i].op = "updateForm" /\ inflight[i].phase = "checked"
  /\ IF forms[inflight[i].form] = Null
     THEN /\ resp' = Response("updateForm", 500, FALSE, {}, Null)
          /\ Replied(i, "failed")
          /\ applied' = applied + 1
     ELSE /\ Moved(i, "read", forms[inflight[i].form],
                   updateForm(forms[inflight[i].form], inflight[i].update, ids.field, clock))
          /\ UNCHANGED <<resp, applied>>
  /\ UNCHANGED <<forms, subs, ids>>

\* store.reorderFields up to its getForm and the sort; on null the handler
\* replies with null for the form
ReadReorderFields(i) ==
  /\ inflight[i].op = "reorderFields" /\ inflight[i].phase = "checked"
  /\ IF forms[inflight[i].form] = Null
     THEN /\ resp' = Response("reorderFields", 200, FALSE, {}, Null)
          /\ Replied(i, "failed")
          /\ applied' = applied + 1
     ELSE /\ Moved(i, "read", forms[inflight[i].form],
                   reorderFields(forms[inflight[i].form], inflight[i].update, clock))
          /\ UNCHANGED <<resp, applied>>
  /\ UNCHANGED <<forms, subs, ids>>

\* the writeJson of store.updateForm and of store.reorderFields, and the reply
WriteForm(i) ==
  /\ inflight[i].op \in {"updateForm", "reorderFields"} /\ inflight[i].phase = "read"
  /\ forms' = [forms EXCEPT ![inflight[i].form] = writeJson(forms[inflight[i].form], inflight[i])]
  /\ resp' = Response(inflight[i].op, 200, FALSE, {},
                      IF inflight[i].op = "updateForm" THEN sortFields(forms'[inflight[i].form])
                      ELSE forms'[inflight[i].form])
  /\ Replied(i, "written")
  /\ applied' = applied + 1
  /\ UNCHANGED <<subs, ids>>

\* store.updateSubmission up to its getSubmission and the merge
ReadSubmission(i) ==
  /\ inflight[i].op = "updateSubmissionStatus" /\ inflight[i].phase = "checked"
  /\ IF getSubmission(subs, inflight[i].form, inflight[i].sub) = Null
     THEN /\ resp' = Response("updateSubmissionStatus", 404, FALSE, {}, Null)
          /\ Replied(i, "failed")
          /\ applied' = applied + 1
     ELSE /\ Moved(i, "read", subs[inflight[i].sub],
                   updateSubmission(subs[inflight[i].sub], inflight[i].update, clock))
          /\ UNCHANGED <<resp, applied>>
  /\ UNCHANGED <<forms, subs, ids>>

\* PATCH /api/submissions/:formId/:submissionId up to the first await of the
\* store: with answers the handler has read the form and validated them
CheckSubmission(formId, submissionId, body) ==
  IF updateSubmissionStatus(forms[formId], body).create = Null
  THEN /\ resp' = Response("updateSubmissionStatus", updateSubmissionStatus(forms[formId], body).code,
                           updateSubmissionStatus(forms[formId], body).validated, {}, Null)
       /\ UNCHANGED <<forms, subs, ids, applied, inflight>>
  ELSE /\ Began(Request("updateSubmissionStatus", "checked", formId, submissionId,
                        updateSubmissionStatus(forms[formId], body).create, Null, Null))
       /\ UNCHANGED <<forms, subs, ids, resp, applied>>

\* the writeJson of store.updateSubmission and of store.createSubmission, and
\* the reply
WriteSubmission(i) ==
  /\ inflight[i].op \in {"updateSubmissionStatus", "submitForm"} /\ inflight[i].phase = "read"
  /\ subs' = [subs EXCEPT ![inflight[i].sub] = writeJson(subs[inflight[i].sub], inflight[i])]
  /\ resp' = IF inflight[i].op = "submitForm"
             THEN Response("submitForm", 201, TRUE, {}, Num(inflight[i].sub))
             ELSE Response("updateSubmissionStatus", 200, FALSE, {}, subs'[inflight[i].sub])
  /\ Replied(i, "written")
  /\ applied' = applied + 1
  /\ UNCHANGED <<forms, ids>>

\* POST /api/submissions/:id/submit up to the await of store.createSubmission:
\* the form is read, the answers validated, the id and the document made
ReadSubmit(id, body) ==
  IF submitForm(forms[id], body, <<>>).create = Null
  THEN /\ resp' = Response("submitForm", submitForm(forms[id], body, <<>>).code,
                           submitForm(forms[id], body, <<>>).validated, {}, Null)
       /\ UNCHANGED <<forms, subs, ids, applied, inflight>>
  ELSE /\ ids.sub + 1 \in RaceSubIds
       /\ Began(Request("submitForm", "read", id, ids.sub + 1, body, forms[id],
                        createSubmission(forms[id]._id,
                                         submissionOf(submitForm(forms[id], body, <<>>).create, clock),
                                         ids.sub + 1, clock)))
       /\ ids' = [ids EXCEPT !.sub = @ + 1]
       /\ UNCHANGED <<forms, subs, resp, applied>>

NextRace ==
  \/ \E id \in FormIds, updates \in RaceUpdatePayloads :
       CheckForm("updateForm", id, updates) /\ UNCHANGED raceRest
  \/ \E id \in FormIds, m \in RaceOrderMaps : CheckForm("reorderFields", id, m) /\ UNCHANGED raceRest
  \/ \E id \in FormIds, s \in RaceSubIds, body \in RacePatchBodies :
       CheckSubmission(id, s, body) /\ UNCHANGED raceRest
  \/ \E id \in FormIds, body \in RaceSubmitBodies : ReadSubmit(id, body) /\ UNCHANGED raceRest
  \/ \E i \in DOMAIN inflight : ReadUpdateForm(i) /\ UNCHANGED raceRest
  \/ \E i \in DOMAIN inflight : ReadReorderFields(i) /\ UNCHANGED raceRest
  \/ \E i \in DOMAIN inflight : ReadSubmission(i) /\ UNCHANGED raceRest
  \/ \E i \in DOMAIN inflight : WriteForm(i) /\ UNCHANGED raceRest
  \/ \E i \in DOMAIN inflight : WriteSubmission(i) /\ UNCHANGED raceRest
  \/ \E id \in FormIds : DeleteForm(id) /\ UNCHANGED pureVars
  \/ \E id \in FormIds, s \in RaceSubIds : DeleteSubmission(id, s) /\ UNCHANGED pureVars
  \/ \E id \in FormIds : GetFormById(id) /\ UNCHANGED pureVars
  \/ \E id \in FormIds, s \in RaceSubIds : GetSubmissionById(id, s) /\ UNCHANGED pureVars

SpecRace == InitRace /\ [][NextRace]_vars

-----------------------------------------------------------------------------
(* the upload specification: a stored form with a file field, and one      *)
(* submission to it with up to MaxUploads files under the names of its      *)
(* fields and under a name that no field has                                *)

MaxUploads == 3

UploadNames == {"doc", "full_name", "constructor"}

UploadedAs(name, n) ==
  [UploadedFile(n, <<"a">>) EXCEPT !.fieldname = name,
                                   !.filename = name \o "-" \o ToString(n),
                                   !.path = "/uploads/forms/" \o name \o "-" \o ToString(n)]

UploadSequences ==
  UNION {{[i \in 1..n |-> UploadedAs(names[i], i)] : names \in [1..n -> UploadNames]} : n \in 0..MaxUploads}

UploadBodies ==
  {[k \in {"answers"} |-> Obj([full_name |-> Str(<<"J", "o">>)])],
   [k \in {"answers"} |-> Obj([full_name |-> Str(<<"J", "o">>), doc |-> Str(<<"x">>)])],
   [k \in {"answers"} |-> Obj(EmptyObj)]}

InitUpload ==
  /\ forms = [id \in FormIds |->
               IF id = 1 THEN createForm([title |-> "Upload Form", fields |-> UploadFields], 1, 0, 0)
               ELSE Null]
  /\ subs = [s \in SubIds |-> Null]
  /\ ids = [form |-> 1, field |-> 0, sub |-> 0]
  /\ resp = NoResponse
  /\ vanswers = Undef
  /\ vresult = Null
  /\ vmap = EmptyObj
  /\ applied = 0
  /\ versions = <<>>
  /\ clock = 0
  /\ inflight = <<>>

NextUpload ==
  \/ \E id \in FormIds, body \in UploadBodies, files \in UploadSequences :
       SubmitForm(id, body, files) /\ Counted(MaxWrites)
  \/ \E id \in FormIds, s \in SubIds : DeleteSubmission(id, s) /\ Counted(MaxWrites)

SpecUpload == InitUpload /\ [][NextUpload]_vars

-----------------------------------------------------------------------------
(* the statistics specification: up to MaxListed submissions to one stored  *)
(* form, their status updates and deletes, and the counts of the stats call *)

StatsSubmitBodies == {[k \in {"answers"} |-> RaceAnswers]}

StatsPatchBodies ==
  {[k \in {"status"} |-> st] : st \in SubmissionStatuses \cup {"bogus", ""}}
    \cup {[status |-> "archived", answers |-> RaceFirstAnswers]}

InitStats ==
  /\ forms = [id \in FormIds |->
               IF id = 1 THEN createForm([title |-> "Contact Form", fields |-> ContactFields], 1, 0, 0)
               ELSE Null]
  /\ subs = [s \in 1..MaxListed |-> Null]
  /\ ids = [form |-> 1, field |-> Len(ContactFields), sub |-> 0]
  /\ resp = NoResponse
  /\ vanswers = Undef
  /\ vresult = Null
  /\ vmap = EmptyObj
  /\ applied = 0
  /\ versions = <<>>
  /\ clock = 0
  /\ inflight = <<>>

\* POST /api/submissions/:id/submit while the store has room
SubmitOneMore(id, body) ==
  IF submitForm(forms[id], body, <<>>).create = Null
  THEN /\ resp' = Response("submitForm", submitForm(forms[id], body, <<>>).code,
                           submitForm(forms[id], body, <<>>).validated, {}, Null)
       /\ UNCHANGED <<forms, subs, ids>>
  ELSE /\ ids.sub < MaxListed
       /\ subs' = [subs EXCEPT ![ids.sub + 1] =
                      createSubmission(forms[id]._id,
                                       submissionOf(submitForm(forms[id], body, <<>>).create, clock),
                                       ids.sub + 1, clock)]
       /\ ids' = [ids EXCEPT !.sub = @ + 1]
       /\ resp' = Response("submitForm", 201, TRUE, {}, Num(ids.sub + 1))
       /\ UNCHANGED forms

\* GET /api/submissions/:formId/stats
GetSubmissionStats(formId) ==
  /\ resp' = Response("getSubmissionStats", 200, FALSE, {}, getSubmissionStats(subs, formId))
  /\ UNCHANGED <<forms, subs, ids>>

NextStats ==
  \/ \E id \in FormIds, body \in StatsSubmitBodies : SubmitOneMore(id, body) /\ UNCHANGED pureVars
  \/ \E id \in FormIds, s \in 1..MaxListed, body \in StatsPatchBodies :
       UpdateSubmissionStatus(id, s, body) /\ UNCHANGED pureVars
  \/ \E id \in FormIds, s \in 1..MaxListed : DeleteSubmission(id, s) /\ UNCHANGED pureVars
  \/ \E id \in FormIds : GetSubmissionStats(id) /\ UNCHANGED pureVars

SpecStats == InitStats /\ [][NextStats]_vars

-----------------------------------------------------------------------------
(* properties of submitForm and updateSubmissionStatus, under Spec *)

AllPaths(files) == {files[i].path : i \in 1..Len(files)}

\* C1: a submitForm on a form whose status is not 'active' is answered 403,
\* FormValidator.validate is not run and store.createSubmission is not called:
\* no submission is added and no submission id is used
C1_InactiveFormRejected ==
  [][\A id \in FormIds, body \in SubmitBodies, files \in UploadSets :
       (/\ resp'.op = "submitForm" /\ SubmitForm(id, body, files)
        /\ forms[id] # Null /\ forms[id].status # "active")
         => (resp'.code = 403 /\ ~resp'.validated /\ subs' = subs /\ ids' = ids)]_vars

C1_Witness ==
  /\ resp.op = "submitForm" /\ resp.code = 403
  /\ forms[1] # Null /\ forms[1].status \in {"draft", "archived"}

\* the answers of a request fail validation against the form
FailsValidation(form, body, files) ==
  /\ form # Null /\ form.status = "active"
  /\ IsObjectLike(Get(body, "answers"))
  /\ ~validate(form, mergedAnswers(form, sanitizeObject(body.answers), files)).isValid

\* C2: when a submitForm carries uploaded files and its answers fail
\* validation, no submission is persisted and every uploaded file's path is
\* handed to unlink
C2_FailedUploadCleaned ==
  [][\A id \in FormIds, body \in SubmitBodies, files \in UploadSets :
       (/\ resp'.op = "submitForm" /\ SubmitForm(id, body, files)
        /\ Len(files) > 0 /\ FailsValidation(forms[id], body, files))
         => (resp'.code = 400 /\ subs' = subs /\ ids' = ids /\ resp'.unlinked = AllPaths(files))]_vars

C2_Witness ==
  /\ resp.op = "submitForm" /\ resp.code = 400 /\ resp.validated
  /\ Cardinality(resp.unlinked) = 2

\* C7: a submission persisted by a successful submitForm has status 'pending'
\* and a formVersion equal to the version the form holds when it is submitted
C7_FormVersionRecorded ==
  [][\A id \in FormIds, body \in SubmitBodies, files \in UploadSets :
       (resp'.op = "submitForm" /\ resp'.code = 201 /\ SubmitForm(id, body, files))
         => (/\ subs'[ids'.sub].status = "pending"
             /\ subs'[ids'.sub].formVersion = forms[id].version)]_vars

\* the three rejections of updateSubmissionStatus
PatchRejected(form, body) ==
  \/ "status" \notin DOMAIN body /\ ~IsObjectLike(Get(body, "answers"))
  \/ "status" \in DOMAIN body /\ body.status \notin {"pending", "reviewed", "archived"}
  \/ /\ IsObjectLike(Get(body, "answers")) /\ form # Null
     /\ ~validate(form, sanitizeObject(body.answers)).isValid

\* C8: updateSubmissionStatus is rejected and leaves the stored submission as
\* it was when the body carries neither a status nor an answers object, when
\* the status is none of pending, reviewed, archived, or when the answers fail
\* validation against the form; a valid status beside invalid answers changes
\* nothing
C8_RejectedPatchChangesNothing ==
  [][\A id \in FormIds, s \in SubIds, body \in PatchBodies :
       (/\ resp'.op = "updateSubmissionStatus" /\ UpdateSubmissionStatus(id, s, body)
        /\ getSubmission(subs, id, s) # Null
        /\ PatchRejected(forms[id], body))
         => (resp'.code = 400 /\ subs' = subs)]_vars

C8_Witness ==
  /\ resp.op = "updateSubmissionStatus" /\ resp.code = 400 /\ resp.validated
  /\ \E s \in SubIds : subs[s] # Null /\ subs[s].status = "pending"

-----------------------------------------------------------------------------
(* properties of FormValidator, under SpecValidate *)

\* the form and the answers object the validator was given
ValidatedFields == forms[1].fields
ValidatedAnswers == vanswers.o

\* validate() has returned a result
Returned == vresult # Null /\ ~vresult.threw

\* the errors of a result that belong to a field
ErrorsOf(errors, name) == SelectSeq(errors, LAMBDA e : e.field = name)

\* the error object of a message made of the field's label, a text and an argument
ErrorOf(field, text, arg) ==
  [field |-> field.name, message |-> [label |-> field.label, text |-> text, arg |-> arg]]

\* the empty values: undefined, null, a string of nothing but whitespace, []
EmptyAnswer(value) ==
  \/ value \in {Undef, Null, Arr(<<>>)}
  \/ value.t = "string" /\ \A i \in 1..Len(value.s) : value.s[i] = " "

FieldIndex(fields, name) == CHOOSE i \in 1..Len(fields) : fields[i].name = name

InFieldOrder(errors, fields) ==
  \A j, k \in 1..Len(errors) :
    j < k => FieldIndex(fields, errors[j].field) <= FieldIndex(fields, errors[k].field)

ContactNames == <<"full_name", "email", "age">>

IsContactForm(fields) == Len(fields) = 3 /\ \A i \in 1..3 : fields[i].name = ContactNames[i]

\* C4: validate() evaluates every field: the result holds each field's errors,
\* in the order of form.fields, and isValid is true iff there are none; on the
\* form full_name, email (required), age (optional), the answers {age: 25}
\* give two errors, full_name's then email's
C4_EveryFieldInOrder ==
  Returned =>
    /\ \A i \in 1..Len(ValidatedFields) :
         ErrorsOf(vresult.errors, ValidatedFields[i].name)
           = validateField(ValidatedFields[i], ValidatedAnswers).errors
    /\ InFieldOrder(vresult.errors, ValidatedFields)
    /\ vresult.isValid <=> vresult.errors = <<>>
    /\ (IsContactForm(ValidatedFields) /\ ValidatedAnswers = [k \in {"age"} |-> Num(25)])
         => vresult.errors = <<ErrorOf(ValidatedFields[1], " is required", Undef),
                               ErrorOf(ValidatedFields[2], " is required", Undef)>>

C4_Witness ==
  /\ Returned /\ IsContactForm(ValidatedFields)
  /\ ValidatedAnswers = [k \in {"age"} |-> Num(25)]
  /\ Len(vresult.errors) = 2 /\ ~vresult.isValid

\* the form is one number field with min and max set, the answer a number
NumberCase ==
  /\ Len(ValidatedFields) = 1 /\ ValidatedFields[1].type = "number"
  /\ {"min", "max"} \subseteq DOMAIN ValidatedFields[1].validation
  /\ Get(ValidatedAnswers, "f").t = "number"

AnswerNumber == ValidatedAnswers["f"].n
MinOf(field) == field.validation.min
MaxOf(field) == field.validation.max

AtLeast(field) == ErrorOf(field, " must be at least ", Num(MinOf(field)))
AtMost(field) == ErrorOf(field, " must be at most ", Num(MaxOf(field)))

\* the answers were posted to the form and submitForm has answered
Posted == resp.op = "submitForm" /\ resp.code # 404

NothingPersisted == \A s \in SubIds : subs[s] = Null

\* what the claim says of a number v between min and max
NumberErrors(field, v) ==
  IF v < MinOf(field) THEN <<AtLeast(field)>>
  ELSE IF v > MaxOf(field) THEN <<AtMost(field)>>
  ELSE <<>>

\* C5 as stated: with min and max set a number v is accepted iff
\* min <= v <= max, v < min gives exactly the 'at least' error and v > max
\* exactly the 'at most' error, and an out-of-range submission is rejected
\* and not persisted
C5_AsStated ==
  NumberCase =>
    /\ Returned => vresult.errors = NumberErrors(ValidatedFields[1], AnswerNumber)
    /\ (Posted /\ NumberErrors(ValidatedFields[1], AnswerNumber) # <<>>)
         => (resp.code = 400 /\ NothingPersisted)

\* C5, amended: the same when min <= max (18 and 100 are accepted with min=18,
\* max=100); when min > max no number is accepted and a number below min and
\* above max gets both errors, 'at least' then 'at most'; an out-of-range
\* submission is rejected and not persisted, an in-range one is stored
C5_InclusiveRange ==
  NumberCase =>
    /\ (Returned /\ MinOf(ValidatedFields[1]) <= MaxOf(ValidatedFields[1]))
         => vresult.errors = NumberErrors(ValidatedFields[1], AnswerNumber)
    /\ (Returned /\ MinOf(ValidatedFields[1]) > MaxOf(ValidatedFields[1]))
         => /\ vresult.errors # <<>>
            /\ vresult.errors =
                 (IF AnswerNumber < MinOf(ValidatedFields[1]) THEN <<AtLeast(ValidatedFields[1])>> ELSE <<>>)
                   \o (IF AnswerNumber > MaxOf(ValidatedFields[1]) THEN <<AtMost(ValidatedFields[1])>> ELSE <<>>)
    /\ Posted =>
         IF /\ MinOf(ValidatedFields[1]) <= AnswerNumber
            /\ AnswerNumber <= MaxOf(ValidatedFields[1])
         THEN resp.code = 201 /\ ~NothingPersisted
         ELSE resp.code = 400 /\ NothingPersisted

C5_Witness ==
  /\ NumberCase /\ Returned /\ Posted
  /\ MinOf(ValidatedFields[1]) = 18 /\ MaxOf(ValidatedFields[1]) = 100
  /\ AnswerNumber = 100 /\ vresult.isValid /\ resp.code = 201

\* the form is one text or textarea field with minLength set, the answer a
\* string, and validate() has returned
TextCase ==
  /\ Len(ValidatedFields) = 1 /\ ValidatedFields[1].type \in {"text", "textarea"}
  /\ "minLength" \in DOMAIN ValidatedFields[1].validation
  /\ Get(ValidatedAnswers, "f").t = "string"
  /\ Returned

AnswerString == ValidatedAnswers["f"].s
MinLengthOf(field) == field.validation.minLength

TooShort(field) == ErrorOf(field, " must be at least N characters", Num(MinLengthOf(field)))

WithinMaxLength(field, s) ==
  "maxLength" \in DOMAIN field.validation => Len(s) <= field.validation.maxLength

MeetsTheRest(field, s) ==
  /\ "maxLength" \in DOMAIN field.validation
       => (field.validation.maxLength = 0 \/ Len(s) <= field.validation.maxLength)
  /\ "pattern" \in DOMAIN field.validation => PatternTest(field.validation.pattern, s)

-----------------------------------------------------------------------------
(* properties of reorderFields, under SpecReorder *)

\* the order a field list gives the field of an id
OrderOf(fields, fieldId) == fields[CHOOSE i \in 1..Len(fields) : fields[i]._id = fieldId].order

PositionOf(fields, fieldId) == CHOOSE i \in 1..Len(fields) : fields[i]._id = fieldId

\* after is before sorted by ascending order, ties in the order before has them
StablySorted(before, after) ==
  /\ Len(after) = Len(before)
  /\ \A i, j \in 1..Len(after) :
       i < j => \/ after[i].order < after[j].order
                \/ /\ after[i].order = after[j].order
                   /\ PositionOf(before, after[i]._id) < PositionOf(before, after[j]._id)

\* C9: reorderFields(id, fieldOrders) sets field.order = fieldOrders[field._id]
\* for every field whose id is in the map, whatever integer >= 0 the map
\* gives, 0 too, leaves the other fields' orders as they were, persists the
\* list stably sorted by ascending order and returns it
C9_OrdersApplied ==
  [][\A id \in FormIds :
       (resp'.op = "reorderFields" /\ Reorder(id) /\ forms[id] # Null)
         => /\ \A i \in 1..Len(forms[id].fields) :
                 OrderOf(forms'[id].fields, forms[id].fields[i]._id)
                   = IF forms[id].fields[i]._id \in DOMAIN vmap
                     THEN vmap[forms[id].fields[i]._id]
                     ELSE forms[id].fields[i].order
            /\ StablySorted(forms[id].fields, forms'[id].fields)
            /\ resp'.data = forms'[id]]_vars

\* C10: reorderFields is idempotent: the same fieldOrders applied to a form
\* again, right after a first application, leaves the stored field list,
\* orders and order of the list, as the first application left it, and
\* returns the same form
C10_ReorderIdempotent ==
  [][\A id \in FormIds :
       (/\ resp'.op = "reorderFields" /\ Reorder(id) /\ forms[id] # Null
        /\ resp.op = "reorderFields" /\ resp.code = 200 /\ resp.data._id = id)
         => (forms'[id].fields = forms[id].fields /\ resp'.data.fields = resp.data.fields)]_vars

C10_Witness ==
  /\ applied = 2 /\ resp.op = "reorderFields" /\ resp.code = 200
  /\ \E i, j \in 1..Len(forms[1].fields) :
       /\ i < j
       /\ forms[1].fields[i].order = forms[1].fields[j].order
       /\ forms[1].fields[j]._id \in DOMAIN vmap
       /\ vmap[forms[1].fields[j]._id] = forms[1].fields[j].order

-----------------------------------------------------------------------------
(* properties of the form handlers, under SpecEdit *)

SortedByOrder(fields) == \A i \in 1..(Len(fields) - 1) : fields[i].order <= fields[i + 1].order

Range(q) == {q[i] : i \in 1..Len(q)}

SameFields(a, b) == Len(a) = Len(b) /\ Range(a) = Range(b)

\* C11: whatever creates, updates, field additions, field deletions and
\* reorders came before, a form returned by get-by-id or by list carries the
\* fields it has in the store, sorted by order ascending
C11_ReadsSorted ==
  /\ (resp.op = "getFormById" /\ resp.code = 200)
       => (SortedByOrder(resp.data.fields) /\ SameFields(resp.data.fields, forms[resp.data._id].fields))
  /\ resp.op = "getAllForms"
       => \A i \in 1..Len(resp.data) :
            /\ SortedByOrder(resp.data[i].fields)
            /\ SameFields(resp.data[i].fields, forms[resp.data[i]._id].fields)

\* a form whose fields are stored out of order has been edited and then read
C11_Witness ==
  /\ resp.op = "getFormById" /\ resp.code = 200 /\ applied >= 2
  /\ Len(forms[resp.data._id].fields) >= 2
  /\ ~SortedByOrder(forms[resp.data._id].fields)

StoredForms == {id \in FormIds : forms[id] # Null}

\* C12: no form write that leaves two fields whose names are equal but for
\* case is persisted, so the field names of every stored form are pairwise
\* distinct ignoring case
C12_NamesDistinct ==
  \A id \in StoredForms :
    \A i, j \in 1..Len(forms[id].fields) :
      i # j => toLowerCase(forms[id].fields[i].name) # toLowerCase(forms[id].fields[j].name)

ChoiceTypes == {"select", "radio", "checkbox"}

\* C13: no form write that leaves a select, radio or checkbox field without
\* options is persisted, so every stored field of these types has an option
C13_ChoicesHaveOptions ==
  \A id \in StoredForms :
    \A i \in 1..Len(forms[id].fields) :
      forms[id].fields[i].type \in ChoiceTypes => Len(forms[id].fields[i].options) > 0

\* C14: after createForm, updateForm with fields, addField, deleteField and
\* reorder the orders of the n stored fields are exactly 0..n-1
C14_OrdersDense ==
  \A id \in StoredForms :
    {forms[id].fields[i].order : i \in 1..Len(forms[id].fields)} = 0..(Len(forms[id].fields) - 1)

-----------------------------------------------------------------------------
(* properties of versioning, under SpecEdit and SpecVersion *)

\* what C15 asks of an update of form id with this body, answered with 200
SnapshotAsClaimed(id, body) ==
  versions' = IF DOMAIN body = {"status"} THEN versions
              ELSE Append(versions, snapshot(forms[id], clock))

\* C15: an update whose payload is status alone creates no FormVersion; any
\* other update creates exactly one, holding the version, title, description,
\* fields and settings the form had before.  Stated of updateForm over the
\* file store.
C15_SnapshotIffStructural ==
  [][\A id \in FormIds, body \in EditUpdatePayloads :
       (resp'.op = "updateForm" /\ resp'.code = 200 /\ UpdateForm(id, body))
         => SnapshotAsClaimed(id, body)]_vars

\* the same of updateForm over the Form model, for an update whose snapshot
\* gets written: this one holds under SpecVersion
SnapshotByFormModel ==
  [][\A id \in FormIds, body \in MongoUpdatePayloads :
       (resp'.op = "updateForm" /\ resp'.code = 200 /\ MongoUpdateForm(id, body, TRUE)
          /\ ~indexed(versions, id, forms[id].version))
         => SnapshotAsClaimed(id, body)]_vars

\* C16: a form is created with version 1; a structural update leaves the
\* version one greater, the snapshot written or not; a status-only update
\* leaves it as it is; and no step lowers the version of a stored form.
\* Stated of the handlers over the Form model, which has createVersion.
C16_VersionCounts ==
  [][/\ (resp'.op = "createForm" /\ resp'.code = 201) => resp'.data.version = 1
     /\ \A id \in FormIds, body \in MongoUpdatePayloads, written \in BOOLEAN :
          (resp'.op = "updateForm" /\ resp'.code = 200 /\ MongoUpdateForm(id, body, written))
            => forms'[id].version = forms[id].version + (IF DOMAIN body = {"status"} THEN 0 ELSE 1)
     /\ \A id \in FormIds :
          (forms[id] # Null /\ forms'[id] # Null) => forms'[id].version >= forms[id].version]_vars

-----------------------------------------------------------------------------
(* properties of the submissions of a form, under SpecExport *)

AllSubmissions(store, formId) == listSubmissions(store, formId, "", 1, 100000)

\* C17: deleting a form deletes none of its submissions: getSubmission and
\* listSubmissions return after the deletion what they returned before it
C17_SubmissionsSurvive ==
  [][\A id \in FormIds :
       (resp'.op = "deleteForm" /\ resp'.code = 200 /\ DeleteForm(id))
         => /\ \A s \in SubIds : getSubmission(subs', id, s) = getSubmission(subs, id, s)
            /\ AllSubmissions(subs', id) = AllSubmissions(subs, id)]_vars

\* C18: exportSubmissions on a stored form without submissions answers 404
\* 'No submissions found', not a failure, and leaves forms, submissions and
\* snapshots as they are
C18_EmptyExport ==
  [][\A id \in FormIds :
       (resp'.op = "exportSubmissions" /\ ExportSubmissions(id)
          /\ forms[id] # Null /\ AllSubmissions(subs, id) = <<>>)
         => /\ resp'.code = 404
            /\ resp'.data = [message |-> "No submissions found"]
            /\ UNCHANGED <<forms, subs, ids, versions>>]_vars

\* the submission of a stored form was deleted and the export asked for
C18_Witness ==
  /\ resp.op = "exportSubmissions" /\ resp.code = 404
  /\ forms[1] # Null /\ ids.sub >= 1 /\ AllSubmissions(subs, 1) = <<>>

\* C19: whatever the labels of the n fields, every row of the export has 3 + n
\* columns: the submission id, the time of submission and the status, then
\* one column for each field, under its label, holding the answer to it
C19_OneColumnPerField ==
  [][\A id \in FormIds :
       (resp'.op = "exportSubmissions" /\ resp'.code = 200 /\ ExportSubmissions(id))
         => \A r \in 1..Len(resp'.data) :
              /\ Cardinality(DOMAIN resp'.data[r]) = 3 + Len(forms[id].fields)
              /\ resp'.data[r]["Submission ID"] = Num(AllSubmissions(subs, id)[r]._id)
              /\ resp'.data[r]["Submitted At"] = Num(AllSubmissions(subs, id)[r].metadata.submittedAt)
              /\ resp'.data[r]["Status"] = Str(<<AllSubmissions(subs, id)[r].status>>)
              /\ \A i \in 1..Len(forms[id].fields) :
                   resp'.data[r][forms[id].fields[i].label]
                     = exportCell(Get(ownProperties(AllSubmissions(subs, id)[r].answers),
                                      forms[id].fields[i].name))]_vars

-----------------------------------------------------------------------------
(* properties of the store updates, under SpecStore *)

\* the fields of an update are stored one for one, each with the keys and
\* values the update gives it
FieldsAsGiven(stored, given) ==
  /\ Len(stored) = Len(given)
  /\ \A i \in 1..Len(given) : \A k \in DOMAIN given[i] : stored[i][k] = given[i][k]

\* after is before with the top-level keys of the update replaced and
\* updatedAt stamped now, and nothing else changed
Merged(before, after, updates, now) ==
  /\ DOMAIN after = DOMAIN before \cup DOMAIN updates
  /\ \A k \in DOMAIN before \ (DOMAIN updates \cup {"updatedAt"}) : after[k] = before[k]
  /\ \A k \in DOMAIN updates \ {"updatedAt", "fields"} : after[k] = updates[k]
  /\ "fields" \in DOMAIN updates => FieldsAsGiven(after.fields, updates.fields)
  /\ after.updatedAt = now

OthersKept(before, after, id) == \A other \in DOMAIN before \ {id} : after[other] = before[other]

\* what C20 asks of PUT /api/forms/:id
FormUpdateAsClaimed(id, updates) ==
  IF forms[id] = Null
  THEN resp'.code = 404 /\ UNCHANGED <<forms, subs>>
  ELSE /\ resp'.code = 200
       /\ Merged(forms[id], forms'[id], updates, clock)
       /\ resp'.data = sortFields(forms'[id])
       /\ OthersKept(forms, forms', id)
       /\ UNCHANGED subs

\* what C20 asks of PATCH /api/submissions/:formId/:submissionId once the
\* handler has an update to hand to the store
SubmissionUpdateAsClaimed(formId, submissionId, update) ==
  IF getSubmission(subs, formId, submissionId) = Null
  THEN resp'.code = 404 /\ UNCHANGED <<forms, subs>>
  ELSE /\ resp'.code = 200
       /\ Merged(subs[submissionId], subs'[submissionId], update, clock)
       /\ resp'.data = subs'[submissionId]
       /\ OthersKept(subs, subs', submissionId)
       /\ UNCHANGED forms

\* C20: an update of a form or of a submission that is not stored answers not
\* found and writes nothing; an update of a stored one stores and returns the
\* document with the top-level keys of the update replaced and updatedAt
\* stamped anew, every other top-level key, createdAt among them, as it was
C20_StoreUpdate ==
  [][/\ \A id \in FormIds, updates \in StoreUpdatePayloads :
          (resp'.op = "updateForm" /\ UpdateForm(id, updates)) => FormUpdateAsClaimed(id, updates)
     /\ \A id \in FormIds, s \in SubIds, body \in StorePatchBodies :
          (resp'.op = "updateSubmissionStatus" /\ UpdateSubmissionStatus(id, s, body)
             /\ updateSubmissionStatus(forms[id], body).create # Null)
            => SubmissionUpdateAsClaimed(id, s, updateSubmissionStatus(forms[id], body).create)]_vars

\* a form that has a submission was updated some time after it was created
C20_Witness ==
  /\ resp.op = "updateForm" /\ resp.code = 200
  /\ forms[1].title = "X" /\ forms[1].updatedAt > forms[1].createdAt
  /\ ids.sub >= 1

-----------------------------------------------------------------------------
(* properties of the store deletes, under SpecExport *)

\* the delete does not throw and removes the document; on an id without a
\* document it leaves the store as it is; a second delete of the id leaves
\* what the first one left
FormDeleteIdempotent(store, id) ==
  /\ ~deleteForm(store, id).threw
  /\ deleteForm(store, id).forms[id] = Null
  /\ store.forms[id] = Null
       => Documents(deleteForm(store, id).forms, deleteForm(store, id).subs) = store
  /\ deleteForm(Documents(deleteForm(store, id).forms, deleteForm(store, id).subs), id)
       = deleteForm(store, id)

SubmissionDeleteIdempotent(store, formId, s) ==
  /\ ~deleteSubmission(store, formId, s).threw
  /\ getSubmission(deleteSubmission(store, formId, s).subs, formId, s) = Null
  /\ getSubmission(store.subs, formId, s) = Null
       => Documents(deleteSubmission(store, formId, s).forms, deleteSubmission(store, formId, s).subs) = store
  /\ deleteSubmission(Documents(deleteSubmission(store, formId, s).forms,
                                deleteSubmission(store, formId, s).subs), formId, s)
       = deleteSubmission(store, formId, s)

\* C21: in every store the handlers reach, a store delete of a form or of a
\* submission does not throw, leaves the store as it is when the id has no
\* document, and done twice leaves what it leaves done once; the delete
\* handlers answer a missing id with 404, not with a failure, and write nothing
C21_DeleteIdempotent ==
  /\ [](\A id \in FormIds :
         /\ FormDeleteIdempotent(Documents(forms, subs), id)
         /\ \A s \in SubIds : SubmissionDeleteIdempotent(Documents(forms, subs), id, s))
  /\ [][/\ \A id \in FormIds :
            (resp'.op = "deleteForm" /\ DeleteForm(id))
              => IF forms[id] = Null
                 THEN resp'.code = 404 /\ UNCHANGED <<forms, subs>>
                 ELSE resp'.code = 200 /\ forms'[id] = Null
       /\ \A id \in FormIds, s \in SubIds :
            (resp'.op = "deleteSubmission" /\ DeleteSubmission(id, s))
              => IF getSubmission(subs, id, s) = Null
                 THEN resp'.code = 404 /\ UNCHANGED <<forms, subs>>
                 ELSE resp'.code = 200 /\ subs'[s] = Null /\ UNCHANGED forms]_vars

\* a form that had a submission was deleted, and deleted again
C21_Witness ==
  /\ resp.op = "deleteForm" /\ resp.code = 404
  /\ forms[1] = Null /\ ids.sub >= 1 /\ applied = 3

-----------------------------------------------------------------------------
(* properties of the lists of the store, under SpecList *)

\* the documents of a store that a filter on status matches
Matching(store, status) ==
  {id \in DOMAIN store : store[id] # Null /\ (status = "" \/ store[id].status = status)}

\* the result is page p of the sequence: its total, its number of pages and
\* its slice of at most L documents, empty beyond the last page
PageAsClaimed(sequence, result, p, L) ==
  /\ result.pagination.total = Len(sequence)
  /\ result.pagination.pages * L >= Len(sequence)
  /\ (result.pagination.pages - 1) * L < Len(sequence)
  /\ DOMAIN result.data = {k \in 1..L : (p - 1) * L + k <= Len(sequence)}
  /\ \A k \in DOMAIN result.data : result.data[k] = sequence[(p - 1) * L + k]
  /\ Len(result.data) <= L
  /\ p > result.pagination.pages => result.data = <<>>

\* pages q .. pages of the forms, one after the other
RECURSIVE FormPages(_, _, _, _, _)
FormPages(store, status, L, q, pages) ==
  IF q > pages THEN <<>>
  ELSE listFormsResult(store, status, q, L).data \o FormPages(store, status, L, q + 1, pages)

RECURSIVE SubmissionPages(_, _, _, _, _, _)
SubmissionPages(store, formId, status, L, q, pages) ==
  IF q > pages THEN <<>>
  ELSE listSubmissionsResult(store, formId, status, q, L).data
         \o SubmissionPages(store, formId, status, L, q + 1, pages)

\* the submissions of a form that a filter on status matches
MatchingOf(store, formId, status) ==
  {id \in Matching(store, status) : getSubmission(store, formId, id) # Null}

\* every document of the store named in matching is in the sequence exactly
\* once, and nothing else is
EachOnce(sequence, store, matching) ==
  /\ Len(sequence) = Cardinality(matching)
  /\ \A id \in matching : Cardinality({k \in 1..Len(sequence) : sequence[k] = store[id]}) = 1

\* C22: a list call with page p >= 1 and limit L >= 1 returns the number of
\* matching documents as total, ceil(total / L) as pages and positions
\* (p-1)*L .. min(p*L, total)-1 of the filtered, sorted documents as data, at
\* most L of them and none beyond the last page; pages 1..pages together hold
\* every matching document exactly once
C22_Pagination ==
  [][/\ \A status \in {"", "active"}, p \in ListPages, L \in ListLimits :
          (resp'.op = "listForms" /\ ListForms(status, p, L))
            => /\ PageAsClaimed(sortByCreatedAt(filterByStatus(readForms(forms, 1), status)),
                                resp'.data, p, L)
               /\ EachOnce(FormPages(forms, status, L, 1, resp'.data.pagination.pages),
                           forms, Matching(forms, status))
     /\ \A id \in FormIds, status \in {"", "pending"}, p \in ListPages, L \in ListLimits :
          (resp'.op = "listSubmissions" /\ ListSubmissions(id, status, p, L))
            => /\ PageAsClaimed(sortByCreatedAt(filterByStatus(readSubmissions(subs, id, 1), status)),
                                resp'.data, p, L)
               /\ EachOnce(SubmissionPages(subs, id, status, L, 1, resp'.data.pagination.pages),
                           subs, MatchingOf(subs, id, status))]_vars

\* the second and last page of three submissions, two to a page
C22_Witness ==
  /\ resp.op = "listSubmissions" /\ resp.data.pagination.total = 3
  /\ resp.data.pagination.pages = 2 /\ resp.data.pagination.page = 2
  /\ Len(resp.data.data) = 1

-----------------------------------------------------------------------------
(* properties of the ids of created documents, under SpecCreate *)

\* C23: a create never takes the id of a document that is stored, in the same
\* tick or in a later one: the created form or submission is written where
\* there was no document
C23_IdsFresh ==
  [][/\ \A payload \in GeneratedPayloads, fraction \in Fractions :
          (resp'.op = "createForm" /\ CreateFormAs(payload, fraction))
            => forms[resp'.data._id] = Null
     /\ \A id \in GeneratedIds, body \in GeneratedBodies, fraction \in Fractions :
          (resp'.op = "submitForm" /\ resp'.code = 201 /\ SubmitFormAs(id, body, fraction))
            => subs[resp'.data] = Null]_vars

-----------------------------------------------------------------------------
(* properties of interleaved requests, under SpecRace *)

UpdateOps == {"updateForm", "reorderFields", "updateSubmissionStatus"}

\* the document stored where the request writes
StoredFor(request, formDocs, subDocs) ==
  IF request.op \in {"updateForm", "reorderFields"} THEN formDocs[request.form]
  ELSE subDocs[request.sub]

\* the top-level keys the request gives another value than it read
ChangedKeys(request) ==
  {k \in DOMAIN request.merged : k \notin DOMAIN request.read \/ request.merged[k] # request.read[k]}
    \ {"updatedAt"}

\* two updates of one document that have both read it as it was before either
\* wrote
Racing(a, b) ==
  /\ a.op \in UpdateOps /\ b.op \in UpdateOps
  /\ a.phase \in {"read", "written"} /\ b.phase \in {"read", "written"}
  /\ (a.op = "updateSubmissionStatus") = (b.op = "updateSubmissionStatus")
  /\ a.form = b.form /\ a.sub = b.sub
  /\ a.read = b.read

\* after is the merge the request computed from the document it read
MergeOf(request, after, now) ==
  IF request.op = "reorderFields"
  THEN /\ after.fields = sortByOrder(applyOrders(request.read.fields, request.update))
       /\ after.updatedAt = now
       /\ \A k \in DOMAIN request.read \ {"fields", "updatedAt"} : after[k] = request.read[k]
       /\ DOMAIN after = DOMAIN request.read
  ELSE Merged(request.read, after, request.update, now)

\* C24: when two updates of one document have both read it before either
\* writes, the write of each is answered 200, the document stored after a
\* write is the merge that writer computed from what it read, and after the
\* second write every key that only the first writer changed is back at the
\* value both had read
C24_LastWriteWins ==
  [][\A i \in DOMAIN inflight, j \in DOMAIN inflight :
       (i # j /\ Racing(inflight[i], inflight[j]) /\ resp'.op = inflight[i].op
          /\ (WriteForm(i) \/ WriteSubmission(i)))
         => /\ resp'.code = 200
            /\ inflight'[i].phase = "written"
            /\ MergeOf(inflight[i], StoredFor(inflight[i], forms', subs'), clock)
            /\ inflight[j].phase = "written"
                 => \A k \in ChangedKeys(inflight[j]) \ ChangedKeys(inflight[i]) :
                      /\ StoredFor(inflight[i], forms', subs')[k] = inflight[i].read[k]
                      /\ StoredFor(inflight[i], forms', subs')[k] # inflight[j].merged[k]]_vars

\* a status update and an answers edit of the submission both read it, the
\* status was written first and the answers last: the status is pending again
C24_Witness ==
  /\ Len(inflight) = 2
  /\ Racing(inflight[1], inflight[2])
  /\ inflight[1].op = "updateSubmissionStatus"
  /\ inflight[1].phase = "written" /\ inflight[2].phase = "written"
  /\ inflight[1].turn < inflight[2].turn
  /\ ChangedKeys(inflight[1]) = {"status"} /\ ChangedKeys(inflight[2]) = {"answers"}
  /\ subs[1].status = "pending" /\ subs[1].answers = RaceAnswers

-----------------------------------------------------------------------------
(* properties of the uploaded files of a submission, under SpecUpload *)

\* the files uploaded under a field name, in upload order
FilesUnder(files, name) == SelectSeq(files, LAMBDA file : file.fieldname = name)

\* what C25 asks answers[name] to be for a name with files
FilesAsClaimed(form, files, name) ==
  IF Len(FilesUnder(files, name)) = 1 THEN fileInfo(form, FilesUnder(files, name)[1])
  ELSE Arr([i \in 1..Len(FilesUnder(files, name)) |-> fileInfo(form, FilesUnder(files, name)[i])])

AnswersAsClaimed(form, given, files, answers) ==
  /\ DOMAIN answers = DOMAIN given \cup {files[i].fieldname : i \in 1..Len(files)}
  /\ \A name \in {files[i].fieldname : i \in 1..Len(files)} :
       answers[name] = FilesAsClaimed(form, files, name)
  /\ \A name \in DOMAIN given \ {files[i].fieldname : i \in 1..Len(files)} :
       answers[name] = given[name]

\* C25: the answers that submitForm validates and stores hold, under every
\* field name with one uploaded file, the metadata object of that file, under
\* every field name with several, the array of their metadata objects in
\* upload order, whatever the body gave under that name, and under every
\* other name what the body gave
C25_FilesMerged ==
  [][\A id \in FormIds, body \in UploadBodies, files \in UploadSequences :
       (resp'.op = "submitForm" /\ resp'.code = 201 /\ SubmitForm(id, body, files))
         => AnswersAsClaimed(forms[id], sanitizeObject(body.answers).o, files,
                             subs'[ids'.sub].answers.o)]_vars

-----------------------------------------------------------------------------
(* properties of the cleanup of uploaded files, under Spec *)

\* C26: every submitForm that ends without persisting a submission, whatever
\* the reason (no such form, form not active, answers missing or not an
\* object, validation failed or threw), hands the path of every file uploaded
\* with the request to unlink
C26_RejectedUploadCleaned ==
  [][\A id \in FormIds, body \in SubmitBodies, files \in UploadSets :
       (/\ resp'.op = "submitForm" /\ resp'.code # 201
        /\ SubmitForm(id, body, files))
         => resp'.unlinked = AllPaths(files)]_vars

-----------------------------------------------------------------------------
(* properties of the identity of stored documents, under SpecStore *)

\* every stored document carries the id it is stored under
StoredUnderOwnId ==
  /\ \A id \in FormIds : forms[id] # Null => forms[id]._id = id
  /\ \A s \in SubIds : subs[s] # Null => subs[s]._id = s

\* a document stored before and after a step keeps its _id and its createdAt
IdentityKept ==
  /\ \A id \in FormIds :
       (forms[id] # Null /\ forms'[id] # Null)
         => (forms'[id]._id = forms[id]._id /\ forms'[id].createdAt = forms[id].createdAt)
  /\ \A s \in SubIds :
       (subs[s] # Null /\ subs'[s] # Null)
         => (subs'[s]._id = subs[s]._id /\ subs'[s].createdAt = subs[s].createdAt)

\* C27: in every state the form or submission stored under an id has that id
\* as its _id, and no step changes the _id or the createdAt of a stored
\* document, whatever keys the payload of an update carries
C27_IdentityImmutable == []StoredUnderOwnId /\ [][IdentityKept]_vars

-----------------------------------------------------------------------------
(* properties of deletes among interleaved requests, under SpecRace *)

\* a form or submission id that was given out and has no document: the
\* document was deleted
FormDeleted(id) == id <= ids.form /\ forms[id] = Null

SubmissionDeleted(s) == s <= ids.sub /\ subs[s] = Null

\* the write of request i puts a document back that a delete had removed, or
\* puts a new submission under a form that a delete had removed
WritesAfterDelete(i) ==
  IF inflight[i].op \in {"updateForm", "reorderFields"}
  THEN FormDeleted(inflight[i].form)
  ELSE IF inflight[i].op = "updateSubmissionStatus"
  THEN SubmissionDeleted(inflight[i].sub)
  ELSE FormDeleted(inflight[i].form)

\* C28: a delete is final among interleaved requests: no write of a request
\* that had read the form or the submission before the delete stores that
\* document again, and no submitForm that had read the form before its delete
\* stores a submission under it
C28_DeleteFinal ==
  [][\A i \in DOMAIN inflight :
       (/\ inflight[i].phase = "read" /\ resp'.op = inflight[i].op
        /\ WritesAfterDelete(i)
        /\ (WriteForm(i) \/ WriteSubmission(i)))
         => (forms' = forms /\ subs' = subs)]_vars

-----------------------------------------------------------------------------
(* properties of the replies of the field handlers, under SpecEdit *)

FieldOps == {"addField", "updateField", "deleteField"}

\* C29: the form in the success reply of addField, updateField and
\* deleteField is the form as it is stored after the request: with the added
\* field, with the patched field, without the removed field
C29_FieldReplyStored ==
  [][\A id \in FormIds :
       (/\ resp'.op \in FieldOps /\ resp'.code \in {200, 201}
        /\ forms[id] # Null /\ forms'[id] # forms[id])
         => resp'.data = forms'[id]]_vars

-----------------------------------------------------------------------------
(* properties of the statuses and the counts of submissions, under SpecStats *)

\* the submissions stored for a form
SubmissionsOf(formId) == {s \in DOMAIN subs : subs[s] # Null /\ subs[s].formId = formId}

StatusesValid == \A s \in DOMAIN subs : subs[s] # Null => subs[s].status \in SubmissionStatuses

CountsAddUp(formId, counts) ==
  /\ counts.total = counts.pending + counts.reviewed + counts.archived
  /\ counts.total = Cardinality(SubmissionsOf(formId))
  /\ counts.pending = Cardinality({s \in SubmissionsOf(formId) : subs[s].status = "pending"})

====
